---------------------------- MODULE Spec2Model ----------------------------
(***************************************************************************)
(* Pattern generation and theorem validation of the paper-fold package.    *)
(*                                                                         *)
(* Numbers.  The program computes in IEEE doubles.  The model computes in  *)
(* fixed point: a length is an integer number of 1/UNIT cm, an angle an    *)
(* integer number of 1/ANG rad, a unit vector has components in 1/UV.      *)
(* Every product is rounded to the nearest unit (RDiv), so a model value   *)
(* is within a few units of the program's value.  The tolerances of the    *)
(* program (0.001 for vertex identity, 0.0001 for pattern equality, 0.01   *)
(* rad for Kawasaki-Justin) are 10 units, 1 unit and 10000 angle units.    *)
(***************************************************************************)
EXTENDS Integers, Sequences, FiniteSets, TLC

VARIABLES
    config,      \* the PatternConfig handed to generatePattern / validatePattern
    pc,          \* position of the caller: which call has returned last
    source,      \* where the pattern came from: "generator" or "caller"
    pattern,     \* the FoldPattern in hand
    genError,    \* the error generatePattern threw ("none": it returned)
    validation,  \* the PatternValidation validatePattern returned
    paramTest,   \* the last testParameter call: its arguments, patterns, result
    edge,        \* the edge handed to generateLockingTab / generateSlit
    geomResult,  \* what generateLockingTab / generateSlit returned
    vertexInfo,  \* the VertexTypeInfo handed to checkVertexValidity
    crimp,       \* working state of checkVertexValidity's loop
    validity,    \* the VertexValidityResult checkVertexValidity returned
    heap,        \* the objects (vectors and arrays) by identity: heap[id] is the value
    refs,        \* the references the caller holds into the heap
    before       \* what was in hand before the last call, kept for comparison

vars == <<config, pc, source, pattern, genError, validation, paramTest,
          edge, geomResult, vertexInfo, crimp, validity, heap, refs, before>>

-----------------------------------------------------------------------------
(* Fixed-point arithmetic *)

UNIT == 10 ^ 4          \* length units per cm
UV   == 2 ^ 14          \* resolution of a unit vector's components
ANG  == 10 ^ 6          \* angle units per radian
PI   == 3141593         \* Math.PI in angle units
TWO_PI == 2 * PI

Abs(a) == IF a < 0 THEN -a ELSE a
Sgn(a) == IF a < 0 THEN -1 ELSE IF a > 0 THEN 1 ELSE 0
Min2(a, b) == IF a < b THEN a ELSE b
Max2(a, b) == IF a > b THEN a ELSE b

\* a / b rounded to the nearest integer, halves away from zero (b > 0)
RDiv(a, b) == Sgn(a) * ((Abs(a) + b \div 2) \div b)

\* floor(sqrt(n)) for 0 <= n < 2^31, one hexadecimal digit at a time: the
\* largest r + d * step (d < 16) whose square does not exceed n
IsqrtDigit(n, r, step) ==
    r + step * Cardinality({d \in 1..15 :
                               /\ r + d * step <= 46340
                               /\ (r + d * step) * (r + d * step) <= n})

Isqrt(n) == IsqrtDigit(n, IsqrtDigit(n, IsqrtDigit(n, IsqrtDigit(n, 0, 4096), 256), 16), 1)

\* sqrt(a*a + b*b) to the nearest unit, without forming a product over 2^31:
\* exact for short vectors; for long ones the root of the vector cut to
\* multiples of 16 units, corrected by the first-order term of the remainder.
RoundRoot(n, r) == IF n - r * r > r THEN r + 1 ELSE r

HypotShort(n) == RoundRoot(n, Isqrt(n))

HypotCorrect(A, B, a1, b1, C) ==
    16 * C + RDiv(256 * (A * A + B * B - C * C)
                    + 32 * (A * a1 + B * b1) + a1 * a1 + b1 * b1, 32 * C)

HypotLong(A, B, a1, b1) == HypotCorrect(A, B, a1, b1, Isqrt(A * A + B * B))

HypotAbs(a, b) ==
    IF a <= 32000 /\ b <= 32000
    THEN HypotShort(a * a + b * b)
    ELSE HypotLong(a \div 16, b \div 16, a % 16, b % 16)

Hypot(a0, b0) == HypotAbs(Abs(a0), Abs(b0))


\* Math.atan2(y, x) in angle units, by CORDIC vectoring (shift-and-add only):
\* the vector is rotated onto the positive x axis by the angles atan(2^-i)
AtanTable ==
    <<785398, 463648, 244979, 124355, 62419, 31240, 15624, 7812, 3906, 1953,
      977, 488, 244, 122, 61, 31, 15, 8, 4, 2, 1>>

\* the vector doubled until its larger component reaches 2^26: k doublings
ShiftUp(x, y, k) == <<x * (2 ^ k), y * (2 ^ k)>>

DoublingsOf(m) == Cardinality({j \in 1..26 : m < 2 ^ (27 - j)})

ScaleUp(x, y) == ShiftUp(x, y, DoublingsOf(Max2(Abs(x), Abs(y))))

Shr(a, i) == Sgn(a) * (Abs(a) \div (2 ^ i))

\* one rotation of <<x, y, z>> by atan(2^-(i-1)) towards the x axis
CordicStep(s, i) ==
    IF s[2] > 0
    THEN <<s[1] + Shr(s[2], i - 1), s[2] - Shr(s[1], i - 1), s[3] + AtanTable[i]>>
    ELSE <<s[1] - Shr(s[2], i - 1), s[2] + Shr(s[1], i - 1), s[3] - AtanTable[i]>>

\* rotations i..j in order, until y = 0
RECURSIVE CordicRange(_, _, _)
CordicRange(s, i, j) ==
    IF s[2] = 0 \/ i > j THEN s
    ELSE IF i = j THEN CordicStep(s, i)
    ELSE CordicRange(CordicRange(s, i, (i + j) \div 2), (i + j) \div 2 + 1, j)

Cordic(x, y, z, i) == CordicRange(<<x, y, z>>, i, Len(AtanTable))[3]

HalfTurn(y, a) == IF y >= 0 THEN PI + a ELSE a - PI

AtanScaled(v) ==
    IF v[1] >= 0 THEN Cordic(v[1], v[2], 0, 1)
    ELSE HalfTurn(v[2], Cordic(-v[1], -v[2], 0, 1))

Atan2(y, x) == IF x = 0 /\ y = 0 THEN 0 ELSE AtanScaled(ScaleUp(x, y))

-----------------------------------------------------------------------------
(* THREE.Vector3 on the XZ plane (y = 0 throughout): a point is <<x, z>> *)

v2(x, z) == <<x, z>>
VSub(a, b) == <<a[1] - b[1], a[2] - b[2]>>
VAdd(a, b) == <<a[1] + b[1], a[2] + b[2]>>
VNeg(a) == <<-a[1], -a[2]>>
VLength(a) == Hypot(a[1], a[2])

\* Vector3.normalize: divides by length() || 1, so the zero vector stays zero;
\* the result is a unit vector in 1/UV
RECURSIVE ScaleDown(_)
ScaleDown(a) ==
    IF Max2(Abs(a[1]), Abs(a[2])) < 2 ^ 16 THEN a
    ELSE ScaleDown(<<RDiv(a[1], 2), RDiv(a[2], 2)>>)

UnitOf(s, len) ==
    IF len = 0 THEN <<0, 0>>
    ELSE <<RDiv(s[1] * UV, len), RDiv(s[2] * UV, len)>>

NormalizeScaled(s) == UnitOf(s, VLength(s))

VNormalize(a) == NormalizeScaled(ScaleDown(a))

\* unitVector.multiplyScalar(length): back to length units
VScale(u, len) == <<RDiv(u[1] * len, UV), RDiv(u[2] * len, UV)>>
VDot(u, w) == RDiv(u[1] * w[1] + u[2] * w[2], UV)
VCross(u, w) == RDiv(u[1] * w[2] - u[2] * w[1], UV)
VEquals(a, b) == a = b

\* a.distanceTo(b) < tol and a.distanceTo(b) > tol, tol a small whole number of units
NearIn(dx, dz, tol) == dx < tol /\ dz < tol /\ dx * dx + dz * dz < tol * tol
FarIn(dx, dz, tol) == dx > tol \/ dz > tol \/ dx * dx + dz * dz > tol * tol

DistLess(a, b, tol) == NearIn(Abs(a[1] - b[1]), Abs(a[2] - b[2]), tol)

DistGreater(a, b, tol) == FarIn(Abs(a[1] - b[1]), Abs(a[2] - b[2]), tol)

\* a * f / 10^6 rounded, f a factor in millionths (cos, sin, pi)
MulMicro(a, f) ==
    Sgn(a) * Sgn(f)
      * RDiv(Abs(a) * (Abs(f) \div 1000) + RDiv(Abs(a) * (Abs(f) % 1000), 1000), 1000)

\* a * p / 100 rounded: the decimal coefficients of the generators (0.15, 0.8, ...)
Pct(a, p) == RDiv(a * p, 100)

\* Math.cos and Math.sin at k * 30 degrees, in millionths
CosTable == <<1000000, 866025, 500000, 0, -500000, -866025,
              -1000000, -866025, -500000, 0, 500000, 866025>>
Cos30(k) == CosTable[(k % 12) + 1]
Sin30(k) == CosTable[((k + 9) % 12) + 1]

Min3(a, b, c) == Min2(a, Min2(b, c))

-----------------------------------------------------------------------------
(* Geometry primitives *)

fold(start, end, type) == [start |-> start, end |-> end, type |-> type]

\* the tab's outline, from its base, the offset of its outer edge and the
\* inset of its tip along the base
tabOutline(baseStart, baseEnd, tipStart, tipEnd) ==
    [vertices  |-> <<baseStart, baseEnd, tipEnd, tipStart>>,
     foldLines |-> <<fold(baseStart, baseEnd, "mountain"),
                     fold(baseStart, tipStart, "cut"),
                     fold(tipStart, tipEnd, "cut"),
                     fold(tipEnd, baseEnd, "cut")>>]

tabFromOffsets(baseStart, baseEnd, out, inset) ==
    tabOutline(baseStart, baseEnd,
               VAdd(VAdd(baseStart, out), inset), VSub(VAdd(baseEnd, out), inset))

tabPerp(dir, inward) == IF inward THEN <<-dir[2], dir[1]>> ELSE <<dir[2], -dir[1]>>

\* an inset of a quarter of the base length at each end
tabInsetLen_quarter(len) == RDiv(len * 50, 200)

\* taperRatio = 0.7: insetLen = length * (1 - taperRatio) / 2
tabInsetLen(len) == RDiv(len * (100 - 70), 200)

tabAlong(baseStart, baseEnd, tabDepth, inward, len, dir) ==
    tabFromOffsets(baseStart, baseEnd, VScale(tabPerp(dir, inward), tabDepth),
                   VScale(dir, tabInsetLen(len)))

tabOnEdge(baseStart, baseEnd, tabDepth, inward, d) ==
    tabAlong(baseStart, baseEnd, tabDepth, inward, VLength(d), VNormalize(d))

generateLockingTab(baseStart, baseEnd, tabDepth, inward) ==
    tabOnEdge(baseStart, baseEnd, tabDepth, inward, VSub(baseEnd, baseStart))

slitInset(start, end, inset) == <<fold(VAdd(start, inset), VSub(end, inset), "cut")>>

slitAlong(start, end, slitPct, len, dir) ==
    slitInset(start, end, VScale(dir, RDiv(len * (100 - slitPct), 200)))

slitOnEdge(start, end, slitPct, d) ==
    slitAlong(start, end, slitPct, VLength(d), VNormalize(d))

\* slitPct is slitRatio in percent (default 80)
generateSlit(start, end, slitPct) == slitOnEdge(start, end, slitPct, VSub(end, start))

-----------------------------------------------------------------------------
(* Shape generators *)

generateBoxPattern(c) ==
    LET width    == c.width
        height   == c.height
        depth    == c.depth
        tabDepth == Pct(Min3(width, height, depth), 15)
        hw       == RDiv(width, 2)
        hd       == RDiv(depth, 2)
        bottomBL == v2(-hw, -hd)
        bottomBR == v2(hw, -hd)
        bottomTR == v2(hw, hd)
        bottomTL == v2(-hw, hd)
        frontBL  == v2(-hw, hd)
        frontBR  == v2(hw, hd)
        frontTR  == v2(hw, hd + height)
        frontTL  == v2(-hw, hd + height)
        backTL   == v2(-hw, -hd)
        backTR   == v2(hw, -hd)
        backBR   == v2(hw, -hd - height)
        backBL   == v2(-hw, -hd - height)
        leftBR   == v2(-hw, -hd)
        leftTR   == v2(-hw, hd)
        leftTL   == v2(-hw - height, hd)
        leftBL   == v2(-hw - height, -hd)
        rightBL  == v2(hw, -hd)
        rightTL  == v2(hw, hd)
        rightTR  == v2(hw + height, hd)
        rightBR  == v2(hw + height, -hd)
        topBL    == frontTL
        topBR    == frontTR
        topTR    == v2(hw, hd + height + depth)
        topTL    == v2(-hw, hd + height + depth)
        cuts     == <<fold(backBL, backBR, "cut"), fold(backBR, backTR, "cut"),
                      fold(backBL, backTL, "cut"),
                      fold(leftBL, leftTL, "cut"), fold(leftBL, leftBR, "cut"),
                      fold(leftTL, leftTR, "cut"),
                      fold(rightBR, rightTR, "cut"), fold(rightBL, rightBR, "cut"),
                      fold(rightTL, rightTR, "cut"),
                      fold(frontBL, frontTL, "cut"), fold(frontBR, frontTR, "cut"),
                      fold(topTL, topTR, "cut"), fold(topTL, topBL, "cut"),
                      fold(topTR, topBR, "cut")>>
        folds    == <<fold(bottomBL, bottomBR, "mountain"),
                      fold(bottomTL, bottomTR, "mountain"),
                      fold(bottomBL, bottomTL, "mountain"),
                      fold(bottomBR, bottomTR, "mountain"),
                      fold(frontTL, frontTR, "mountain")>>
        tabs     == generateLockingTab(backBL, backTL, tabDepth, TRUE).foldLines
                    \o generateLockingTab(backTR, backBR, tabDepth, TRUE).foldLines
                    \o generateLockingTab(topTL, topBL, tabDepth, TRUE).foldLines
                    \o generateLockingTab(topBR, topTR, tabDepth, TRUE).foldLines
                    \o generateLockingTab(topTL, topTR, tabDepth, FALSE).foldLines
        slits    == generateSlit(leftBL, leftTL, 70) \o generateSlit(rightBR, rightTR, 70)
    IN  [name      |-> "Box (Glue-Free)",
         vertices  |-> <<bottomBL, bottomBR, bottomTR, bottomTL, frontTL, frontTR,
                         backBL, backBR, leftBL, leftTL, rightBR, rightTR, topTL, topTR>>,
         foldLines |-> cuts \o folds \o tabs \o slits,
         faces     |-> <<<<0, 1, 2, 3>>, <<3, 2, 5, 4>>, <<1, 0, 6, 7>>,
                         <<0, 3, 9, 8>>, <<2, 1, 10, 11>>, <<4, 5, 13, 12>>>>]

\* a base as wide as the configuration's width, whatever its depth
pyramidBaseSize_width(c) == c.width

\* const baseSize = Math.min(width, depth)
pyramidBaseSize(c) == Min2(c.width, c.depth)

generatePyramidPattern(c) ==
    LET baseSize    == pyramidBaseSize(c)
        half        == RDiv(baseSize, 2)
        slantHeight == Hypot(c.height, half)
        tabDepth    == Pct(baseSize, 12)
        baseBL      == v2(-half, -half)
        baseBR      == v2(half, -half)
        baseTR      == v2(half, half)
        baseTL      == v2(-half, half)
        apexFront   == v2(0, half + slantHeight)
        apexBack    == v2(0, -half - slantHeight)
        apexLeft    == v2(-half - slantHeight, 0)
        apexRight   == v2(half + slantHeight, 0)
        cuts        == <<fold(baseTL, apexFront, "cut"), fold(apexFront, baseTR, "cut"),
                         fold(baseBR, apexBack, "cut"), fold(apexBack, baseBL, "cut"),
                         fold(baseTL, apexLeft, "cut"), fold(apexLeft, baseBL, "cut"),
                         fold(baseTR, apexRight, "cut"), fold(apexRight, baseBR, "cut")>>
        folds       == <<fold(baseTL, baseTR, "mountain"), fold(baseBL, baseBR, "mountain"),
                         fold(baseBL, baseTL, "mountain"), fold(baseBR, baseTR, "mountain")>>
        tabs        == generateLockingTab(baseTL, apexFront, tabDepth, FALSE).foldLines
                       \o generateLockingTab(baseBR, apexBack, tabDepth, TRUE).foldLines
                       \o generateLockingTab(apexLeft, baseBL, tabDepth, FALSE).foldLines
                       \o generateLockingTab(apexRight, baseTR, tabDepth, TRUE).foldLines
    IN  [name      |-> "Pyramid (Glue-Free)",
         vertices  |-> <<baseBL, baseBR, baseTR, baseTL,
                         apexFront, apexBack, apexLeft, apexRight>>,
         foldLines |-> cuts \o folds \o tabs,
         faces     |-> <<<<0, 1, 2, 3>>, <<3, 2, 4>>, <<1, 0, 5>>, <<0, 3, 6>>, <<2, 1, 7>>>>]

generateEnvelopePattern(c) ==
    LET bodyWidth       == c.width
        bodyDepth       == Pct(c.depth, 60)
        flapDepth       == Pct(c.depth, 25)
        topFlapDepth    == Pct(c.depth, 35)
        bottomFlapDepth == Pct(c.depth, 30)
        hw              == RDiv(bodyWidth, 2)
        hd              == RDiv(bodyDepth, 2)
        bodyBL          == v2(-hw, -hd)
        bodyBR          == v2(hw, -hd)
        bodyTR          == v2(hw, hd)
        bodyTL          == v2(-hw, hd)
        bottomApex      == v2(0, -hd - bottomFlapDepth)
        topApex         == v2(0, hd + topFlapDepth)
        leftApex        == v2(-hw - flapDepth, 0)
        rightApex       == v2(hw + flapDepth, 0)
        slitWidth       == Pct(bodyWidth, 30)
        slitZ           == hd + Pct(topFlapDepth, 40)
        cuts            == <<fold(bodyBL, bottomApex, "cut"), fold(bottomApex, bodyBR, "cut"),
                             fold(bodyTL, topApex, "cut"), fold(topApex, bodyTR, "cut"),
                             fold(bodyBL, leftApex, "cut"), fold(leftApex, bodyTL, "cut"),
                             fold(bodyBR, rightApex, "cut"), fold(rightApex, bodyTR, "cut")>>
        folds           == <<fold(bodyBL, bodyBR, "valley"), fold(bodyTL, bodyTR, "valley"),
                             fold(bodyBL, bodyTL, "valley"), fold(bodyBR, bodyTR, "valley")>>
        tuck            == <<fold(v2(-RDiv(slitWidth, 2), slitZ),
                                  v2(RDiv(slitWidth, 2), slitZ), "cut")>>
    IN  [name      |-> "Envelope (Glue-Free)",
         vertices  |-> <<bodyBL, bodyBR, bodyTR, bodyTL,
                         bottomApex, topApex, leftApex, rightApex>>,
         foldLines |-> cuts \o folds \o tuck,
         faces     |-> <<<<0, 1, 2, 3>>, <<0, 1, 4>>, <<3, 2, 5>>, <<0, 3, 6>>, <<2, 1, 7>>>>]

\* the six hexagon vertices: angle = i * pi / 3 - pi / 6
hexPoint(i, radius) ==
    v2(MulMicro(radius, Cos30(2 * i - 1)), MulMicro(radius, Sin30(2 * i - 1)))

\* the side face with vIdx read after the two vertices were pushed
sideFace_late(i) == <<i, (i + 1) % 6, 6 + 2 * i + 3, 6 + 2 * i + 2>>

\* [i, next, vIdx + 1, vIdx], vIdx = vertices.length before s1 and s2 are
\* pushed: the six hexagon points and two vertices for each earlier side
sideFace(i) == <<i, (i + 1) % 6, 6 + 2 * i + 1, 6 + 2 * i>>

\* one pass of the side-face loop: the two outer vertices, the face, the lines
prismSideLines(i, p1, p2, s1, s2, tabDepth) ==
    [vertices  |-> <<s1, s2>>,
     face      |-> sideFace(i),
     foldLines |-> <<fold(s1, s2, "cut")>>
                   \o (IF i % 2 = 0
                       THEN <<fold(p1, s1, "cut")>>
                            \o (IF i = 4 THEN <<fold(p2, s2, "cut")>> ELSE <<>>)
                       ELSE generateLockingTab(p1, s1, tabDepth, TRUE).foldLines)]

prismSideOut(i, p1, p2, out, tabDepth) ==
    prismSideLines(i, p1, p2, VAdd(p1, out), VAdd(p2, out), tabDepth)

\* outDir = midpoint(p1, p2).normalize()
prismSideMid(i, p1, p2, sum, height, tabDepth) ==
    prismSideOut(i, p1, p2,
                 VScale(VNormalize(<<RDiv(sum[1], 2), RDiv(sum[2], 2)>>), height),
                 tabDepth)

prismSideAt(i, p1, p2, height, tabDepth) ==
    prismSideMid(i, p1, p2, VAdd(p1, p2), height, tabDepth)

prismSide(i, radius, height, tabDepth) ==
    prismSideAt(i, hexPoint(i, radius), hexPoint((i + 1) % 6, radius), height, tabDepth)

joinSides(side, rest) ==
    [vertices  |-> side.vertices \o rest.vertices,
     faces     |-> <<side.face>> \o rest.faces,
     foldLines |-> side.foldLines \o rest.foldLines]

RECURSIVE prismSides(_, _, _, _)
prismSides(i, radius, height, tabDepth) ==
    IF i >= 6 THEN [vertices |-> <<>>, faces |-> <<>>, foldLines |-> <<>>]
    ELSE joinSides(prismSide(i, radius, height, tabDepth),
                   prismSides(i + 1, radius, height, tabDepth))

prismFrom(hexPoints, sides) ==
    [name      |-> "Hexagonal Prism (Glue-Free)",
     vertices  |-> hexPoints \o sides.vertices,
     foldLines |-> [i \in 1..6 |-> fold(hexPoints[i], hexPoints[(i % 6) + 1], "mountain")]
                   \o sides.foldLines,
     faces     |-> <<<<0, 1, 2, 3, 4, 5>>>> \o sides.faces]

prismOfRadius(radius, height) ==
    prismFrom([i \in 1..6 |-> hexPoint(i - 1, radius)],
              prismSides(0, radius, height, Pct(radius, 15)))

generatePrismPattern(c) == prismOfRadius(RDiv(c.width, 2), c.height)

numSegments == 12

\* one cap of the cylinder: the polygon's perimeter cuts, then per segment the
\* mountain fold on the attachment line and the valley fold to the polygon
cylinderCap(centerX, centerY, attachY, radius, bodyWidth) ==
    LET circle == [i \in 1..numSegments |->
                     v2(centerX + MulMicro(radius, Cos30(i - 1)),
                        centerY + MulMicro(radius, Sin30(i - 1)))]
        cuts   == [i \in 1..numSegments |->
                     fold(circle[i], circle[(i % numSegments) + 1], "cut")]
        radial == [j \in 1..(2 * numSegments) |->
                     LET i        == (j - 1) \div 2
                         segmentX == RDiv(i * bodyWidth, numSegments)
                     IN  IF j % 2 = 1
                         THEN fold(v2(segmentX, attachY),
                                   v2(segmentX + RDiv(bodyWidth, numSegments), attachY),
                                   "mountain")
                         ELSE fold(v2(segmentX, attachY), circle[i + 1], "valley")]
    IN  cuts \o radial

generateCylinderPattern(c) ==
    LET radius        == RDiv(c.width, 2)
        circumference == MulMicro(2 * radius, PI)
        tabDepth      == Pct(radius, 15)
        bodyWidth     == circumference
        bodyHeight    == c.height
        bodyBL        == v2(0, 0)
        bodyBR        == v2(bodyWidth, 0)
        bodyTR        == v2(bodyWidth, bodyHeight)
        bodyTL        == v2(0, bodyHeight)
        tabHeight     == Pct(bodyHeight, 80)
        tabStart      == Pct(bodyHeight, 10)
        tabEnd        == tabStart + tabHeight
        tabBL         == v2(bodyWidth, tabStart)
        tabTL         == v2(bodyWidth, tabEnd)
        taperInset    == RDiv(tabHeight * 30, 200)
        tabTipBL      == v2(bodyWidth + tabDepth, tabStart + taperInset)
        tabTipTL      == v2(bodyWidth + tabDepth, tabEnd - taperInset)
        slitStart     == v2(0, tabStart + taperInset)
        slitEnd       == v2(0, tabEnd - taperInset)
        closure       == <<fold(tabBL, tabTL, "mountain"), fold(tabBL, tabTipBL, "cut"),
                           fold(tabTipBL, tabTipTL, "cut"), fold(tabTipTL, tabTL, "cut"),
                           fold(slitStart, slitEnd, "cut")>>
        top           == cylinderCap(RDiv(bodyWidth, 2), bodyHeight + radius + tabDepth,
                                     bodyHeight, radius, bodyWidth)
        bottom        == cylinderCap(RDiv(bodyWidth, 2), -(radius + tabDepth),
                                     0, radius, bodyWidth)
        outer         == <<fold(bodyBL, bodyBR, "cut"), fold(bodyTL, bodyTR, "cut"),
                           fold(bodyBL, slitStart, "cut"), fold(slitEnd, bodyTL, "cut"),
                           fold(bodyBR, v2(bodyWidth, tabStart), "cut"),
                           fold(v2(bodyWidth, tabEnd), bodyTR, "cut")>>
    IN  [name      |-> "Cylinder (Glue-Free)",
         vertices  |-> <<bodyBL, bodyBR, bodyTR, bodyTL>>,
         foldLines |-> closure \o top \o bottom \o outer,
         faces     |-> <<<<0, 1, 2, 3>>>>]

\* a factory that keeps its fold lines in a list shared between calls
generatePattern_shared(c) ==
    IF pattern = [kind |-> "none"]
    THEN CASE c.shapeType = "pyramid"  -> generatePyramidPattern(c)
           [] c.shapeType = "envelope" -> generateEnvelopePattern(c)
           [] c.shapeType = "prism"    -> generatePrismPattern(c)
           [] c.shapeType = "cylinder" -> generateCylinderPattern(c)
           [] OTHER                    -> generateBoxPattern(c)
    ELSE [pattern EXCEPT !.foldLines = @ \o @]

\* the pattern factory; an unknown shape type falls back to the box
generatePattern(c) ==
    CASE c.shapeType = "box"      -> generateBoxPattern(c)
      [] c.shapeType = "pyramid"  -> generatePyramidPattern(c)
      [] c.shapeType = "envelope" -> generateEnvelopePattern(c)
      [] c.shapeType = "prism"    -> generatePrismPattern(c)
      [] c.shapeType = "cylinder" -> generateCylinderPattern(c)
      [] OTHER                    -> generateBoxPattern(c)

-----------------------------------------------------------------------------
(* Theorem parameters *)

KJ_minFolds  == 4
KJ_tolerance == ANG \div 100           \* 0.01 rad
MAEKAWA_differenceAbsolute == 2
MAEKAWA_minFolds == 4
TOL == UNIT \div 1000                  \* 0.001: vertex proximity tolerance
minFeatureSizeMultiplier == 5

\* ASSEMBLY_MECHANICS.tab.depthCoefficient in hundredths; `|| 0.15` for the rest
depthCoefficient(shapeType) ==
    CASE shapeType = "box"      -> 15
      [] shapeType = "pyramid"  -> 12
      [] shapeType = "prism"    -> 15
      [] shapeType = "cylinder" -> 15
      [] shapeType = "envelope" -> 10
      [] OTHER                  -> 15

-----------------------------------------------------------------------------
(* Vertex analysis *)

SeqAny(sq, P(_)) == \E i \in 1..Len(sq) : P(sq[i])
SeqFilter(sq, P(_)) == SelectSeq(sq, P)

findConnectedLines(vertex, allLines) ==
    LET touches(line) == DistLess(line.start, vertex, TOL) \/ DistLess(line.end, vertex, TOL)
    IN  SelectSeq(allLines, touches)

\* a point is taken as known only when it equals a known vertex
pushIfNew_exact(vertices, point) ==
    IF \E i \in 1..Len(vertices) : vertices[i] = point
    THEN vertices
    ELSE Append(vertices, point)

\* vertices.push(point.clone()) unless some known vertex is within tolerance
pushIfNew(vertices, point) ==
    IF \E i \in 1..Len(vertices) : DistLess(vertices[i], point, TOL)
    THEN vertices
    ELSE Append(vertices, point)

\* the loop over the fold lines i..j, in order, halved so that the evaluation
\* stays shallow
RECURSIVE extractFrom(_, _, _, _)
extractFrom(foldLines, i, j, vertices) ==
    IF i > j \/ Len(vertices) > 2 * Len(foldLines) THEN vertices
    ELSE IF i = j
    THEN pushIfNew(pushIfNew(vertices, foldLines[i].start), foldLines[i].end)
    ELSE extractFrom(foldLines, (i + j) \div 2 + 1, j,
                     extractFrom(foldLines, i, (i + j) \div 2, vertices))

extractVertices(foldLines) == extractFrom(foldLines, 1, Len(foldLines), <<>>)

\* Array.prototype.sort with the comparator a.angle - b.angle, a stable sort:
\* an element's place is the number of elements with a smaller angle, or with
\* the same angle and an earlier position, plus one
placeByAngle(sq, i) ==
    1 + Cardinality({j \in 1..Len(sq) :
                        \/ sq[j].angle < sq[i].angle
                        \/ sq[j].angle = sq[i].angle /\ j < i})

sortByPlace(sq, places) ==
    [k \in 1..Len(sq) |-> sq[CHOOSE i \in 1..Len(sq) : places[i] = k]]

sortTuple(sq) == sortByPlace(sq, [i \in 1..Len(sq) |-> placeByAngle(sq, i)])

sortByAngle(sq) == sortTuple(SubSeq(sq, 1, Len(sq)))

\* the sum of sq[i..j]
RECURSIVE SumRange(_, _, _)
SumRange(sq, i, j) ==
    IF i > j THEN 0
    ELSE IF i = j THEN sq[i]
    ELSE SumRange(sq, i, (i + j) \div 2) + SumRange(sq, (i + j) \div 2 + 1, j)

SumSeq(sq, i) == SumRange(sq, i, Len(sq))

\* Math.acos(clamp(u . w)) for unit (or zero) vectors: the unsigned angle in
\* [0, pi] between them; acos(0) when one of them is the zero vector
acosOf(dot, cross) ==
    IF dot = 0 /\ cross = 0 THEN RDiv(PI, 2) ELSE Atan2(Abs(cross), dot)

acosDot(u, w) == acosOf(VDot(u, w), VCross(u, w))

-----------------------------------------------------------------------------
(* Kawasaki-Justin *)

\* the far end of a line seen from the vertex: line.start.equals(vertex) ? end : start
otherEndExact(vertex, line) ==
    IF VEquals(line.start, vertex) THEN line.end ELSE line.start

withAngle(dir) == [dir |-> dir, angle |-> Atan2(dir[2], dir[1])]

\* directions.sort((a, b) => a.angle - b.angle)
sortedDirections(vertex, connectedLines) ==
    sortByAngle([i \in 1..Len(connectedLines) |->
                    withAngle(VNormalize(VSub(otherEndExact(vertex, connectedLines[i]),
                                              vertex)))])

\* angles[i]: between direction i and direction (i + 1) % n
sectorAngles(directions) ==
    [i \in 1..Len(directions) |->
        acosDot(directions[i].dir, directions[(i % Len(directions)) + 1].dir)]

\* the sum of the angles at the positions of one parity; index i of the
\* program is position i + 1 here
sumParity(angles, parity) ==
    SumSeq([i \in 1..Len(angles) |-> IF i % 2 = parity THEN angles[i] ELSE 0], 1)

\* the total alone is checked, not the two alternating sums
kjErrors_totalOnly(vertex, sumEven, sumOdd) ==
    IF Abs(sumEven + sumOdd - TWO_PI) > KJ_tolerance
    THEN <<[kind |-> "total", vertex |-> vertex, sum |-> sumEven + sumOdd]>>
    ELSE <<>>

kjErrors(vertex, sumEven, sumOdd) ==
    (IF Abs(sumEven + sumOdd - TWO_PI) > KJ_tolerance
     THEN <<[kind |-> "total", vertex |-> vertex, sum |-> sumEven + sumOdd]>>
     ELSE <<>>)
    \o (IF Abs(sumEven - PI) > KJ_tolerance
        THEN <<[kind |-> "even", vertex |-> vertex, sum |-> sumEven]>>
        ELSE <<>>)
    \o (IF Abs(sumOdd - PI) > KJ_tolerance
        THEN <<[kind |-> "odd", vertex |-> vertex, sum |-> sumOdd]>>
        ELSE <<>>)

kjInterior(angles, sumEven, sumOdd, errors) ==
    [valid     |-> errors = <<>>,
     theoremId |-> "kawasaki-justin",
     errors    |-> errors,
     warnings  |-> <<>>,
     details   |-> [vertexType |-> "interior", foldCount |-> Len(angles),
                    angles |-> angles, sumEven |-> sumEven, sumOdd |-> sumOdd,
                    sumTotal |-> sumEven + sumOdd]]

kjFromSums(vertex, angles, sumEven, sumOdd) ==
    kjInterior(angles, sumEven, sumOdd, kjErrors(vertex, sumEven, sumOdd))

kjFromAngles(vertex, angles) ==
    kjFromSums(vertex, angles, sumParity(angles, 1), sumParity(angles, 0))

\* no vertex exempt: the sums are checked whatever the number of lines
verifyKawasakiJustinAtVertex_all(vertex, connectedLines) ==
    kjFromAngles(vertex, sectorAngles(sortedDirections(vertex, connectedLines)))

verifyKawasakiJustinAtVertex(vertex, connectedLines) ==
    IF Len(connectedLines) < KJ_minFolds
    THEN [valid     |-> TRUE,
          theoremId |-> "kawasaki-justin",
          errors    |-> <<>>,
          warnings  |-> <<[kind |-> "exempt", vertex |-> vertex,
                           foldCount |-> Len(connectedLines)]>>,
          details   |-> [vertexType |-> "perimeter", foldCount |-> Len(connectedLines)]]
    ELSE kjFromAngles(vertex, sectorAngles(sortedDirections(vertex, connectedLines)))

\* the errors of the invalid results i..j, in order
RECURSIVE FlatErrors(_, _, _)
FlatErrors(results, i, j) ==
    IF i > j THEN <<>>
    ELSE IF i = j THEN (IF results[i].valid THEN <<>> ELSE results[i].errors)
    ELSE FlatErrors(results, i, (i + j) \div 2)
           \o FlatErrors(results, (i + j) \div 2 + 1, j)

\* the warnings of the results i..j, in order
RECURSIVE FlatWarnings(_, _, _)
FlatWarnings(results, i, j) ==
    IF i > j THEN <<>>
    ELSE IF i = j THEN results[i].warnings
    ELSE FlatWarnings(results, i, (i + j) \div 2)
           \o FlatWarnings(results, (i + j) \div 2 + 1, j)

kjVertexResults(vertices, foldLines) ==
    [i \in 1..Len(vertices) |->
        verifyKawasakiJustinAtVertex(vertices[i],
                                     findConnectedLines(vertices[i], foldLines))]

\* one result per extracted vertex, so totalVertices is their number
kjCollect(vertexResults) ==
    [valid     |-> \A i \in 1..Len(vertexResults) : vertexResults[i].valid,
     theoremId |-> "kawasaki-justin",
     errors    |-> FlatErrors(vertexResults, 1, Len(vertexResults)),
     warnings  |-> FlatWarnings(vertexResults, 1, Len(vertexResults)),
     details   |-> [totalVertices |-> Len(vertexResults),
                    validVertices |-> Len(SelectSeq(vertexResults, LAMBDA r : r.valid))]]

validateKawasakiJustin(p) ==
    kjCollect(kjVertexResults(extractVertices(p.foldLines), p.foldLines))

-----------------------------------------------------------------------------
(* Vertex type and Maekawa *)

typeLetter(type) ==
    IF type = "mountain" THEN "M" ELSE IF type = "valley" THEN "V" ELSE "C"

CountOf(sq, x) == Len(SelectSeq(sq, LAMBDA e : e = x))

\* the far end of a line: line.start.distanceTo(vertex) < 0.001 ? end : start
otherEndNear(vertex, line) ==
    IF DistLess(line.start, vertex, TOL) THEN line.end ELSE line.start

angleOf(dir) == Atan2(dir[2], dir[1])

\* foldData.sort((a, b) => a.angle - b.angle)
sortedFoldData(vertex, connectedLines) ==
    sortByAngle([i \in 1..Len(connectedLines) |->
                    [angle |-> angleOf(VNormalize(VSub(
                                   otherEndNear(vertex, connectedLines[i]), vertex))),
                     type  |-> connectedLines[i].type]])

positiveAngle(diff) == IF diff <= 0 THEN diff + TWO_PI ELSE diff

sectorsOf(foldData) ==
    [i \in 1..Len(foldData) |->
        positiveAngle(foldData[(i % Len(foldData)) + 1].angle - foldData[i].angle)]

sequenceOf(foldData) == [i \in 1..Len(foldData) |-> typeLetter(foldData[i].type)]

\* Maekawa taken as satisfied by any difference up to two
vertexTypeInfo_lenient(vertex, degree, sequence, angles, mountains, valleys) ==
    [vertex            |-> vertex,
     degree            |-> degree,
     sequence          |-> sequence,
     mountains         |-> mountains,
     valleys           |-> valleys,
     maekawaDifference |-> Abs(mountains - valleys),
     maekawaSatisfied  |-> ~(mountains + valleys >= MAEKAWA_minFolds)
                             \/ Abs(mountains - valleys) <= MAEKAWA_differenceAbsolute,
     isInterior        |-> mountains + valleys >= MAEKAWA_minFolds,
     angles            |-> angles]

vertexTypeInfo(vertex, degree, sequence, angles, mountains, valleys) ==
    [vertex            |-> vertex,
     degree            |-> degree,
     sequence          |-> sequence,
     mountains         |-> mountains,
     valleys           |-> valleys,
     maekawaDifference |-> Abs(mountains - valleys),
     maekawaSatisfied  |-> ~(mountains + valleys >= MAEKAWA_minFolds)
                             \/ Abs(mountains - valleys) = MAEKAWA_differenceAbsolute,
     isInterior        |-> mountains + valleys >= MAEKAWA_minFolds,
     angles            |-> angles]

vertexTypeFromSequence(vertex, degree, sequence, angles) ==
    vertexTypeInfo(vertex, degree, sequence, angles,
                   CountOf(sequence, "M"), CountOf(sequence, "V"))

vertexTypeFromFolds(vertex, degree, foldData) ==
    vertexTypeFromSequence(vertex, degree, sequenceOf(foldData), sectorsOf(foldData))

getVertexType(vertex, connectedLines) ==
    vertexTypeFromFolds(vertex, Len(connectedLines),
                        sortedFoldData(vertex, connectedLines))

vertexTypesAt(vertices, foldLines) ==
    [i \in 1..Len(vertices) |->
        getVertexType(vertices[i], findConnectedLines(vertices[i], foldLines))]

vertexTypesOf(p) == vertexTypesAt(extractVertices(p.foldLines), p.foldLines)

maekawaErrors(bad) ==
    [i \in 1..Len(bad) |->
        [kind |-> "maekawa", vertex |-> bad[i].vertex,
         M |-> bad[i].mountains, V |-> bad[i].valleys,
         difference |-> bad[i].maekawaDifference,
         sequence |-> bad[i].sequence]]

maekawaWarnings(perim) ==
    [i \in 1..Len(perim) |->
        [kind |-> "perimeter", vertex |-> perim[i].vertex, degree |-> perim[i].degree]]

maekawaResult(total, satisfied, bad, perim) ==
    [valid     |-> bad = <<>>,
     theoremId |-> "maekawa",
     errors    |-> maekawaErrors(bad),
     warnings  |-> maekawaWarnings(perim),
     details   |-> [totalVertices    |-> total,
                    interiorVertices |-> total - Len(perim),
                    validVertices    |-> satisfied]]

\* a vertex taken as interior by the number of its lines, cuts counted
maekawaCollect_degree(vertexTypes) ==
    maekawaResult(Len(vertexTypes),
                  Len(SelectSeq(vertexTypes, LAMBDA v : v.maekawaSatisfied)),
                  SelectSeq(vertexTypes,
                            LAMBDA v : v.degree >= MAEKAWA_minFolds
                                         /\ v.maekawaDifference # MAEKAWA_differenceAbsolute),
                  SelectSeq(vertexTypes, LAMBDA v : v.degree < MAEKAWA_minFolds))

maekawaCollect(vertexTypes) ==
    maekawaResult(Len(vertexTypes),
                  Len(SelectSeq(vertexTypes, LAMBDA v : v.maekawaSatisfied)),
                  SelectSeq(vertexTypes, LAMBDA v : v.isInterior /\ ~v.maekawaSatisfied),
                  SelectSeq(vertexTypes, LAMBDA v : ~v.isInterior))

validateMaekawa(p) == maekawaCollect(vertexTypesOf(p))

-----------------------------------------------------------------------------
(* Crimping.  Positions are counted from 0 as in the program: At reads       *)
(* position i ("undefined" past the end), Splice1 is splice(i, 1), SetAt is  *)
(* the assignment a[i] = x.                                                  *)

At(sq, i) == IF i >= 0 /\ i < Len(sq) THEN sq[i + 1] ELSE "undefined"
Splice1(sq, i) ==
    IF i >= 0 /\ i < Len(sq) THEN SubSeq(sq, 1, i) \o SubSeq(sq, i + 2, Len(sq)) ELSE sq
SetAt(sq, i, x) == [k \in 1..Len(sq) |-> IF k = i + 1 THEN x ELSE sq[k]]

\* the scan for the smallest angle: the first position holding the minimum
findMinIdx(angles) ==
    IF angles = <<>> THEN 0
    ELSE CHOOSE i \in 0..(Len(angles) - 1) :
            /\ \A j \in 0..(Len(angles) - 1) : At(angles, i) <= At(angles, j)
            /\ \A j \in 0..(i - 1) : At(angles, j) > At(angles, i)

NoReason == [kind |-> "none"]

\* one pass of `while (types.length > 2)`; w is the working state
\* [types, angles, step, crimpSteps, status, failureReason], status "running"
crimpOnce(w) ==
    LET types    == w.types
        angles   == w.angles
        minIdx   == findMinIdx(angles)
        minAngle == At(angles, minIdx)
        leftIdx  == minIdx
        rightIdx == (minIdx + 1) % Len(types)
        leftType == At(types, leftIdx)
        rightType == At(types, rightIdx)
        step     == w.step + 1
        newStep  == [step |-> step, crimpedAngle |-> minAngle,
                     foldTypes |-> <<leftType, rightType>>,
                     remainingDegree |-> Len(types) - 2]
        prevIdx  == (leftIdx - 1 + Len(angles)) % Len(angles)
        nextAngleIdx == IF rightIdx < Len(angles) THEN rightIdx ELSE 0
        newAngle == At(angles, prevIdx) + At(angles, nextAngleIdx) - minAngle
    IN  IF leftType = rightType
        THEN [w EXCEPT !.status = "invalid",
                       !.failureReason = [kind |-> "same-type", minAngle |-> minAngle,
                                          foldTypes |-> <<leftType, rightType>>,
                                          step |-> w.step + 1, remaining |-> types]]
        ELSE IF Len(types) = 3
        THEN [w EXCEPT !.types = <<>>, !.angles = <<>>, !.step = step,
                       !.crimpSteps = Append(w.crimpSteps, newStep),
                       !.status = "valid"]
        ELSE LET types2  == IF rightIdx > leftIdx
                            THEN Splice1(Splice1(types, rightIdx), leftIdx)
                            ELSE Splice1(Splice1(types, leftIdx), 0)
                 angles2 == IF rightIdx > leftIdx
                            THEN LET a1 == Splice1(angles, rightIdx)
                                     a2 == SetAt(a1, IF leftIdx > 0 THEN leftIdx - 1
                                                     ELSE Len(a1) - 1, newAngle)
                                 IN  Splice1(a2, leftIdx)
                            ELSE LET a1 == Splice1(angles, leftIdx)
                                 IN  IF Len(a1) > 0
                                     THEN Splice1(SetAt(a1, Len(a1) - 1, newAngle), 0)
                                     ELSE a1
             IN  [w EXCEPT !.types = types2, !.angles = angles2, !.step = step,
                           !.crimpSteps = Append(w.crimpSteps, newStep),
                           !.status = IF Len(types2) > 2 THEN "running" ELSE "valid"]

\* entry without the Maekawa prerequisite
crimpStart_noMaekawa(vertexType) ==
    LET mvSequence == SelectSeq(vertexType.sequence, LAMBDA t : t # "C")
        base       == [types |-> mvSequence, angles |-> vertexType.angles, step |-> 0,
                       crimpSteps |-> <<>>, status |-> "running",
                       failureReason |-> NoReason]
    IN  IF Len(mvSequence) < 4 THEN [base EXCEPT !.status = "valid"] ELSE base

\* the state on entry: the early returns, or the working copies of the loop
crimpStart(vertexType) ==
    LET mvSequence == SelectSeq(vertexType.sequence, LAMBDA t : t # "C")
        mvAngles   == vertexType.angles
        base       == [types |-> mvSequence, angles |-> mvAngles, step |-> 0,
                       crimpSteps |-> <<>>, status |-> "running",
                       failureReason |-> NoReason]
    IN  IF Len(mvSequence) < 4 THEN [base EXCEPT !.status = "valid"]
        ELSE IF ~vertexType.maekawaSatisfied
        THEN [base EXCEPT !.status = "invalid",
                          !.failureReason = [kind |-> "maekawa",
                                             difference |-> vertexType.maekawaDifference]]
        ELSE base

RECURSIVE crimpLoop(_)
crimpLoop(w) == IF w.status = "running" THEN crimpLoop(crimpOnce(w)) ELSE w

validityResult(vertexType, w) ==
    [valid         |-> w.status = "valid",
     vertexType    |-> vertexType,
     crimpSteps    |-> w.crimpSteps,
     failureReason |-> w.failureReason]

checkVertexValidity(vertexType) ==
    validityResult(vertexType, crimpLoop(crimpStart(vertexType)))

validityErrors(invalid) ==
    [i \in 1..Len(invalid) |->
        [kind |-> "invalid-vertex", vertex |-> invalid[i].vertexType.vertex,
         sequence |-> invalid[i].vertexType.sequence,
         failureReason |-> invalid[i].failureReason]]

validityWarnings(crimped) ==
    [i \in 1..Len(crimped) |->
        [kind |-> "valid-after-crimps", vertex |-> crimped[i].vertexType.vertex,
         crimps |-> Len(crimped[i].crimpSteps)]]

validityResultOf(total, invalid, crimped) ==
    [valid     |-> invalid = <<>>,
     theoremId |-> "vertex-validity",
     errors    |-> validityErrors(invalid),
     warnings  |-> validityWarnings(crimped),
     details   |-> [interiorVertices |-> total,
                    validVertices    |-> total - Len(invalid),
                    invalidVertices  |-> Len(invalid)]]

validityCollect(validityResults) ==
    validityResultOf(Len(validityResults),
                     SelectSeq(validityResults, LAMBDA r : ~r.valid),
                     SelectSeq(validityResults,
                               LAMBDA r : r.valid /\ Len(r.crimpSteps) > 0))

validityOfEach(interior) ==
    validityCollect([i \in 1..Len(interior) |-> checkVertexValidity(interior[i])])

validateVertexValidity(p) ==
    validityOfEach(SelectSeq(vertexTypesOf(p), LAMBDA v : v.isInterior))

-----------------------------------------------------------------------------
(* Assembly mechanics.  Both sides of the tab-depth comparison are kept in   *)
(* hundredths of a unit, so the comparison is exact.                         *)

\* a tab exactly as deep as the minimum feature size counted as too small
tabTooSmall_orEqual(actualTabDepth, minFeatureSize) == actualTabDepth <= minFeatureSize

\* if (actualTabDepth < minFeatureSize)
tabTooSmall(actualTabDepth, minFeatureSize) == actualTabDepth < minFeatureSize

validateTabDesign(c) ==
    LET minDim          == Min3(c.width, c.height, c.depth)
        expectedCoeff   == depthCoefficient(c.shapeType)
        actualTabDepth  == minDim * expectedCoeff
        minFeatureSize  == c.thickness * minFeatureSizeMultiplier * 100
        tooSmall        == tabTooSmall(actualTabDepth, minFeatureSize)
    IN  [valid     |-> ~tooSmall,
         theoremId |-> "assembly-mechanics-tabs",
         errors    |-> IF tooSmall
                       THEN <<[kind |-> "tab-depth", tabDepth |-> actualTabDepth,
                               minFeatureSize |-> minFeatureSize]>>
                       ELSE <<>>,
         warnings  |-> <<[kind |-> "tab-depth-should-be", tabDepth |-> actualTabDepth,
                          coefficient |-> expectedCoeff, minDimension |-> minDim]>>,
         details   |-> [minDimension |-> minDim, depthCoefficient |-> expectedCoeff,
                        expectedTabDepth |-> actualTabDepth,
                        minFeatureSize |-> minFeatureSize, thickness |-> c.thickness]]

validateThickness(c) ==
    LET minDim == Min3(c.width, c.height, c.depth)
    IN  [valid     |-> TRUE,
         theoremId |-> "assembly-mechanics-thickness",
         errors    |-> <<>>,
         warnings  |-> IF c.thickness * 10 > minDim
                       THEN <<[kind |-> "thick", thickness |-> c.thickness,
                               minDimension |-> minDim]>>
                       ELSE <<>>,
         details   |-> [thickness |-> c.thickness,
                        minFeatureSize |-> c.thickness * minFeatureSizeMultiplier]]

\* pairing that passes only when the two counts agree, and says nothing
validateTabSlitPairing_balanced(p) ==
    LET keyOf(line) == <<line.start, line.end>>
        keysOfType(t) == {keyOf(p.foldLines[i]) :
                            i \in {j \in 1..Len(p.foldLines) : p.foldLines[j].type = t}}
    IN  [valid     |-> Cardinality(keysOfType("mountain")) = Cardinality(keysOfType("cut")),
         theoremId |-> "assembly-mechanics-pairing",
         errors    |-> <<>>,
         warnings  |-> <<>>,
         details   |-> [mountainFolds |-> Cardinality(keysOfType("mountain")),
                        cutLines      |-> Cardinality(keysOfType("cut"))]]

\* the keys of the two sets are the lines' endpoint coordinates
validateTabSlitPairing(p) ==
    LET keyOf(line) == <<line.start, line.end>>
        keysOfType(t) == {keyOf(p.foldLines[i]) :
                            i \in {j \in 1..Len(p.foldLines) : p.foldLines[j].type = t}}
    IN  [valid     |-> TRUE,
         theoremId |-> "assembly-mechanics-pairing",
         errors    |-> <<>>,
         warnings  |-> <<[kind |-> "pairing-not-implemented"]>>,
         details   |-> [mountainFolds |-> Cardinality(keysOfType("mountain")),
                        cutLines      |-> Cardinality(keysOfType("cut"))]]

-----------------------------------------------------------------------------
(* Aggregation *)

\* Array.prototype.some in place of every
RECURSIVE someValid(_, _)
someValid(results, i) ==
    IF i > Len(results) THEN FALSE
    ELSE IF results[i].valid THEN TRUE ELSE someValid(results, i + 1)

\* Array.prototype.every over the results' valid flags
RECURSIVE everyValid(_, _)
everyValid(results, i) ==
    IF i > Len(results) THEN TRUE
    ELSE IF ~results[i].valid THEN FALSE ELSE everyValid(results, i + 1)

\* the results up to the first invalid one only
patternValidation_failFast(theoremResults) ==
    [overall  |-> \A i \in 1..Len(theoremResults) : theoremResults[i].valid,
     theorems |-> SubSeq(theoremResults, 1,
                         IF \A i \in 1..Len(theoremResults) : theoremResults[i].valid
                         THEN Len(theoremResults)
                         ELSE CHOOSE i \in 1..Len(theoremResults) :
                                  /\ ~theoremResults[i].valid
                                  /\ \A j \in 1..(i - 1) : theoremResults[j].valid)]

\* return { overall: theoremResults.every(r => r.valid), theorems: theoremResults }
patternValidation(theoremResults) ==
    [overall  |-> everyValid(theoremResults, 1),
     theorems |-> theoremResults]

validatePattern(p, c) ==
    patternValidation(<<validateKawasakiJustin(p), validateMaekawa(p),
                        validateVertexValidity(p), validateTabDesign(c),
                        validateThickness(c), validateTabSlitPairing(p)>>)

-----------------------------------------------------------------------------
(* Parameter behaviour *)

\* p1 and p2 have the same numbers of vertices and lines, every vertex and
\* line end of p2 is within 0.0001 of its counterpart, and line types agree
patternsAreEqual(p1, p2) ==
    /\ Len(p1.vertices) = Len(p2.vertices)
    /\ Len(p1.foldLines) = Len(p2.foldLines)
    /\ \A i \in 1..Len(p1.vertices) :
          ~DistGreater(p1.vertices[i], p2.vertices[i], UNIT \div 10000)
    /\ \A i \in 1..Len(p1.foldLines) :
          /\ p1.foldLines[i].type = p2.foldLines[i].type
          /\ ~DistGreater(p1.foldLines[i].start, p2.foldLines[i].start, UNIT \div 10000)
          /\ ~DistGreater(p1.foldLines[i].end, p2.foldLines[i].end, UNIT \div 10000)

\* { ...config, [parameter]: testValue }
withParameter(c, parameter, testValue) == [c EXCEPT ![parameter] = testValue]

parameterTest(parameter, testValue, baseline, modified) ==
    [parameter |-> parameter, testValue |-> testValue,
     baseline |-> baseline, modified |-> modified,
     affects |-> ~patternsAreEqual(baseline, modified)]

testParameter(c, parameter, testValue) ==
    parameterTest(parameter, testValue, generatePattern(c),
                  generatePattern(withParameter(c, parameter, testValue)))

\* which parameters each shape is declared to use
PARAMETER_USAGE ==
    [shapeType \in {"box", "pyramid", "prism", "cylinder", "envelope"} |->
        [width     |-> TRUE,
         height    |-> shapeType # "envelope",
         depth     |-> shapeType \notin {"prism", "cylinder"},
         thickness |-> FALSE]]

parameterResult(parameter, used, affects, shown, issue) ==
    [parameter |-> parameter, used |-> used, actuallyAffectsPattern |-> affects,
     shouldBeShown |-> shown, issue |-> issue]

\* the four tests of validateParameterBehavior and the warnings and
\* recommendations they leave, given what doubling each parameter did
behaviorOf(c, usage, width, height, depth, thickness) ==
    LET marked   == "Parameter marked as used but changing it has no effect"
        unmarked == "Parameter marked as unused but actually affects pattern"
    IN  [shapeType |-> c.shapeType,
         tests |->
            << parameterResult("width", usage.width, width, TRUE,
                   IF usage.width /\ ~width THEN marked ELSE "none"),
               parameterResult("height", usage.height, height, usage.height,
                   IF ~usage.height /\ height THEN unmarked ELSE "none"),
               parameterResult("depth", usage.depth, depth, usage.depth,
                   IF ~usage.depth /\ depth THEN unmarked ELSE "none"),
               parameterResult("thickness", usage.thickness, thickness, TRUE, "none") >>,
         warnings |->
            (IF usage.width /\ ~width THEN <<"width has no effect">> ELSE <<>>)
            \o (IF ~usage.height /\ height THEN <<"height marked as unused">> ELSE <<>>)
            \o (IF ~usage.depth /\ depth THEN <<"depth marked as unused">> ELSE <<>>)
            \o (IF c.shapeType = "pyramid" /\ c.width # c.depth
                   THEN <<"pyramid uses min">> ELSE <<>>),
         recommendations |->
            (IF ~usage.height /\ ~height THEN <<"hide height">> ELSE <<>>)
            \o (IF ~usage.depth /\ ~depth THEN <<"hide depth">> ELSE <<>>)
            \o (IF ~usage.thickness /\ ~thickness
                   THEN <<"thickness only used in validation">> ELSE <<>>)
            \o (IF c.shapeType = "pyramid" /\ c.width # c.depth
                   THEN <<"set width = depth">> ELSE <<>>)]

validateParameterBehavior(c) ==
    behaviorOf(c, PARAMETER_USAGE[c.shapeType],
               testParameter(c, "width", c.width * 2).affects,
               testParameter(c, "height", c.height * 2).affects,
               testParameter(c, "depth", c.depth * 2).affects,
               testParameter(c, "thickness", c.thickness * 2).affects)

-----------------------------------------------------------------------------
(* The callers' inputs *)

TinyDim == 4            \* a positive length below the vertex tolerance, in units

ShapeTypes == {"box", "pyramid", "envelope", "prism", "cylinder"}
WidthValues == {0, TinyDim, UNIT, 5 * UNIT}
HeightValues == {UNIT, 3 * UNIT, 5 * UNIT}
DepthValues == {0 - UNIT, UNIT, 5 * UNIT}
ThicknessValues == {UNIT \div 10, UNIT \div 2, 2 * UNIT}
Parameters == {"width", "height", "depth", "thickness"}

ValuesOf(parameter) ==
    CASE parameter = "width"  -> WidthValues
      [] parameter = "height" -> HeightValues
      [] parameter = "depth"  -> DepthValues
      [] OTHER                -> ThicknessValues

Configs ==
    [shapeType : ShapeTypes, width : WidthValues, height : HeightValues,
     depth : DepthValues, thickness : ThicknessValues]

None == [kind |-> "none"]

\* A crease pattern a caller draws by hand: one vertex at the origin with a
\* line of 1 cm in each direction k * 30 degrees for which types[k + 1] is a
\* line type
origin == <<0, 0>>
starPoint(k) == <<MulMicro(UNIT, Cos30(k)), MulMicro(UNIT, Sin30(k))>>
starLines(types) ==
    LET ks == SelectSeq([i \in 1..12 |-> i - 1], LAMBDA k : types[k + 1] # "none")
    IN  [i \in 1..Len(ks) |-> fold(origin, starPoint(ks[i]), types[ks[i] + 1])]
starPattern(types) ==
    LET lines == starLines(types)
    IN  [name      |-> "Single vertex",
         vertices  |-> <<origin>> \o [i \in 1..Len(lines) |-> lines[i].end],
         foldLines |-> lines,
         faces     |-> <<>>]

\* sectors of 60, 90, 120 and 90 degrees between lines at 0, 60, 150 and 270
\* degrees: flat-foldable with M V M M, not with M M M M
FlatVertexTypes ==
    [i \in 1..12 |-> CASE i = 1 -> "mountain" [] i = 3 -> "valley"
                       [] i = 6 -> "mountain" [] i = 10 -> "mountain"
                       [] OTHER -> "none"]
AllMountainTypes ==
    [i \in 1..12 |-> IF i \in {1, 3, 6, 10} THEN "mountain" ELSE "none"]
SuppliedPatterns == {starPattern(FlatVertexTypes), starPattern(AllMountainTypes)}

-----------------------------------------------------------------------------
(* Generate, validate, compare *)

Init ==
    /\ config \in Configs
    /\ pc = "idle"
    /\ source = "none"
    /\ pattern = None
    /\ genError = "none"
    /\ validation = None
    /\ paramTest = None
    /\ edge = None
    /\ geomResult = None
    /\ vertexInfo = None
    /\ crimp = None
    /\ validity = None
    /\ heap = <<>>
    /\ refs = None
    /\ before = None

\* generatePattern(config) returns
Generate ==
    /\ pc = "idle"
    /\ pattern' = generatePattern(config)
    /\ genError' = "none"
    /\ source' = "generator"
    /\ pc' = "generated"
    /\ UNCHANGED <<config, validation, paramTest, edge, geomResult,
                   vertexInfo, crimp, validity,
                   heap, refs, before>>

\* the caller brings a pattern of its own to validatePattern
SupplyPattern ==
    /\ pc = "idle"
    /\ pattern' \in SuppliedPatterns
    /\ source' = "caller"
    /\ pc' = "generated"
    /\ UNCHANGED <<config, genError, validation, paramTest, edge, geomResult,
                   vertexInfo, crimp, validity,
                   heap, refs, before>>

\* validatePattern(pattern, config) returns
Validate ==
    /\ pc = "generated"
    /\ validation' = validatePattern(pattern, config)
    /\ pc' = "validated"
    /\ UNCHANGED <<config, source, pattern, genError, paramTest, edge, geomResult,
                   vertexInfo, crimp, validity,
                   heap, refs, before>>

\* testParameter(config, parameter, testValue) returns
TestParameter ==
    /\ pc = "idle"
    /\ \E parameter \in Parameters :
       \E testValue \in ValuesOf(parameter) :
          paramTest' = testParameter(config, parameter, testValue)
    /\ pc' = "tested"
    /\ UNCHANGED <<config, source, pattern, genError, validation, edge, geomResult,
                   vertexInfo, crimp, validity,
                   heap, refs, before>>

\* a second component generates the pattern from the same configuration
Regenerate ==
    /\ pc = "generated"
    /\ source = "generator"
    /\ before' = pattern
    /\ pattern' = generatePattern(config)
    /\ pc' = "regenerated"
    /\ UNCHANGED <<config, source, genError, validation, paramTest, edge, geomResult,
                   vertexInfo, crimp, validity, heap, refs>>

\* validateParameterBehavior(config) returns
ValidateParameterBehavior ==
    /\ pc = "idle"
    /\ paramTest' = validateParameterBehavior(config)
    /\ pc' = "behavior"
    /\ UNCHANGED <<config, source, pattern, genError, validation, edge, geomResult,
                   vertexInfo, crimp, validity,
                   heap, refs, before>>

Next ==
    \/ Generate \/ SupplyPattern \/ Validate \/ TestParameter \/ Regenerate
    \/ ValidateParameterBehavior

Spec == Init /\ [][Next]_vars

-----------------------------------------------------------------------------
(* The geometry primitives called on their own *)

GridValues == {0, UNIT, 3 * UNIT}
GridPoints == GridValues \X GridValues
TabDepths == {UNIT \div 2, UNIT}
SlitPcts == {50, 80}

GeomInit ==
    /\ edge \in [start : GridPoints, end : GridPoints]
    /\ pc = "idle"
    /\ config = None
    /\ source = "none"
    /\ pattern = None
    /\ genError = "none"
    /\ validation = None
    /\ paramTest = None
    /\ geomResult = None
    /\ vertexInfo = None
    /\ crimp = None
    /\ validity = None
    /\ heap = <<>>
    /\ refs = None
    /\ before = None

\* generateLockingTab(edge.start, edge.end, tabDepth, inward) returns
LockingTab ==
    /\ pc = "idle"
    /\ \E tabDepth \in TabDepths, inward \in BOOLEAN :
          geomResult' = [fn |-> "generateLockingTab", error |-> "none",
                         tabDepth |-> tabDepth, inward |-> inward,
                         value |-> generateLockingTab(edge.start, edge.end,
                                                      tabDepth, inward)]
    /\ pc' = "returned"
    /\ UNCHANGED <<config, source, pattern, genError, validation, paramTest, edge,
                   vertexInfo, crimp, validity,
                   heap, refs, before>>

\* generateSlit(edge.start, edge.end, slitRatio) returns
Slit ==
    /\ pc = "idle"
    /\ \E slitPct \in SlitPcts :
          geomResult' = [fn |-> "generateSlit", error |-> "none",
                         slitPct |-> slitPct,
                         value |-> generateSlit(edge.start, edge.end, slitPct)]
    /\ pc' = "returned"
    /\ UNCHANGED <<config, source, pattern, genError, validation, paramTest, edge,
                   vertexInfo, crimp, validity,
                   heap, refs, before>>

GeomNext == LockingTab \/ Slit

GeomSpec == GeomInit /\ [][GeomNext]_vars

-----------------------------------------------------------------------------
(* checkVertexValidity, one pass of its loop at a time, on single vertices  *)
(* with lines in some of the directions 0, 60, 120, 180, 210, 240 and 300   *)
(* degrees                                                                  *)

MaxDegree == 6          \* most lines at the vertex

StarDirections == {1, 3, 5, 7, 8, 9, 11}
StarAssignments ==
    {[i \in 1..12 |-> IF i \in StarDirections THEN t[i] ELSE "none"] :
        t \in {u \in [StarDirections -> {"none", "mountain", "valley", "cut"}] :
                 Cardinality({i \in StarDirections : u[i] # "none"}) <= MaxDegree}}

CrimpInit ==
    /\ \E types \in StarAssignments :
          vertexInfo = getVertexType(origin, starLines(types))
    /\ pc = "idle"
    /\ config = None
    /\ source = "none"
    /\ pattern = None
    /\ genError = "none"
    /\ validation = None
    /\ paramTest = None
    /\ edge = None
    /\ geomResult = None
    /\ crimp = None
    /\ validity = None
    /\ heap = <<>>
    /\ refs = None
    /\ before = None

\* checkVertexValidity(vertexInfo) up to its loop: the early returns are taken
EnterCheck ==
    /\ pc = "idle"
    /\ crimp' = crimpStart(vertexInfo)
    /\ pc' = "crimping"
    /\ UNCHANGED <<config, source, pattern, genError, validation, paramTest, edge,
                   geomResult, vertexInfo, validity,
                   heap, refs, before>>

\* one pass of the loop
CrimpStep ==
    /\ pc = "crimping"
    /\ crimp.status = "running"
    /\ crimp' = crimpOnce(crimp)
    /\ UNCHANGED <<config, pc, source, pattern, genError, validation, paramTest, edge,
                   geomResult, vertexInfo, validity,
                   heap, refs, before>>

\* checkVertexValidity returns
ReturnCheck ==
    /\ pc = "crimping"
    /\ crimp.status # "running"
    /\ validity' = [valid         |-> crimp.status = "valid",
                    vertexType    |-> vertexInfo,
                    crimpSteps    |-> crimp.crimpSteps,
                    failureReason |-> crimp.failureReason]
    /\ pc' = "checked"
    /\ UNCHANGED <<config, source, pattern, genError, validation, paramTest, edge,
                   geomResult, vertexInfo, crimp,
                   heap, refs, before>>

CrimpNext == EnterCheck \/ CrimpStep \/ ReturnCheck

CrimpSpec == CrimpInit /\ [][CrimpNext]_vars

-----------------------------------------------------------------------------
(* Objects.  A THREE.Vector3 or an array is an object with an identity: heap *)
(* is the sequence of the objects made so far and an object's identity is    *)
(* its position in it.  A fold line holds the identities of its endpoints.   *)
(* A builder m is [heap, vertices, lines, owned]: the heap, the pattern's    *)
(* vertices list, its fold lines, and the points the caller made itself.     *)

\* fold lines that keep the points they are given
foldObj_shared(m, start, end, type) ==
    [m EXCEPT !.lines = Append(@, [start |-> start, end |-> end, type |-> type])]

\* { start: start.clone(), end: end.clone(), type }
foldObj(m, start, end, type) ==
    [m EXCEPT !.heap  = @ \o <<m.heap[start], m.heap[end]>>,
              !.lines = Append(@, [start |-> Len(m.heap) + 1,
                                   end   |-> Len(m.heap) + 2,
                                   type  |-> type])]

\* the point a generator hands to fold: the corner it keeps in its vertices
\* list when the point is one of them, a point made for the call otherwise
IsCornerValue(h, nv, value) == \E j \in 1..nv : h[j] = value

withArg(h, nv, value) == IF IsCornerValue(h, nv, value) THEN h ELSE Append(h, value)

argOf(h, nv, value) ==
    IF IsCornerValue(h, nv, value)
    THEN CHOOSE j \in 1..nv : h[j] = value /\ \A k \in 1..(j - 1) : h[k] # value
    ELSE Len(h)

foldFromArgs(m, start, h2, line) ==
    foldObj([m EXCEPT !.heap = h2], start,
            argOf(h2, Len(m.vertices), line.end), line.type)

foldFromStart(m, h1, line) ==
    foldFromArgs(m, argOf(h1, Len(m.vertices), line.start),
                 withArg(h1, Len(m.vertices), line.end), line)

foldValue(m, line) ==
    foldFromStart(m, withArg(m.heap, Len(m.vertices), line.start), line)

\* foldLines.push(fold(...)) for the lines i..j of a generator, in order
RECURSIVE foldValues(_, _, _, _)
foldValues(m, lines, i, j) ==
    IF i > j \/ Len(m.lines) > Len(lines) THEN m
    ELSE IF i = j THEN foldValue(m, lines[i])
    ELSE foldValues(foldValues(m, lines, i, (i + j) \div 2),
                    lines, (i + j) \div 2 + 1, j)

\* a pattern of the glue-free generators, object by object
glueFreeObjects(p) ==
    foldValues([heap |-> p.vertices, vertices |-> [j \in 1..Len(p.vertices) |-> j],
                lines |-> <<>>, owned |-> <<>>],
               p.foldLines, 1, Len(p.foldLines))

\* the basic box: eight corners, and fold lines that hold the corners
\* themselves ({ start: vertices[0], end: vertices[1], ... })
basicBoxCorners(hw, height, hd) ==
    <<<<-hw, 0, -hd>>, <<hw, 0, -hd>>, <<hw, 0, hd>>, <<-hw, 0, hd>>,
      <<-hw, height, -hd>>, <<hw, height, -hd>>, <<hw, height, hd>>,
      <<-hw, height, hd>>>>

basicBoxObjects(c) ==
    [heap     |-> basicBoxCorners(RDiv(c.width, 2), c.height, RDiv(c.depth, 2)),
     vertices |-> <<1, 2, 3, 4, 5, 6, 7, 8>>,
     lines    |-> [i \in 1..8 |->
                     [start |-> i,
                      end   |-> IF i % 4 = 0 THEN i - 3 ELSE i + 1,
                      type  |-> IF i <= 4 THEN "mountain" ELSE "valley"]],
     owned    |-> <<>>]

\* generateLockingTab on two points of the caller's: the vertices returned
\* are two clones and the two tip corners, the lines are made by fold
tabObjectsFrom(m, tab) ==
    foldObj(foldObj(foldObj(foldObj(m, 1, 2, tab.foldLines[1].type),
                            1, 6, tab.foldLines[2].type),
                    6, 5, tab.foldLines[3].type),
            5, 2, tab.foldLines[4].type)

tabObjects(baseStart, baseEnd, tab) ==
    tabObjectsFrom([heap |-> <<baseStart, baseEnd>> \o tab.vertices,
                    vertices |-> <<3, 4, 5, 6>>, lines |-> <<>>, owned |-> <<1, 2>>],
                   tab)

-----------------------------------------------------------------------------
(* The validators, object by object: what they make and what they change     *)

\* a clone that is the point itself
objClone_same(h, id) == [heap |-> h, id |-> id]

\* point.clone(): a new object holding the value of the point
objClone(h, id) == [heap |-> Append(h, h[id]), id |-> Len(h) + 1]

\* a.sub(b) and a.normalize() change a in place
objSub(h, a, b) == [h EXCEPT ![a] = VSub(h[a], h[b])]
objNormalize(h, a) == [h EXCEPT ![a] = VNormalize(h[a])]

\* other.clone().sub(vertex).normalize()
directionFrom(c, vertex) == objNormalize(objSub(c.heap, c.id, vertex), c.id)
directionObj(h, other, vertex) == directionFrom(objClone(h, other), vertex)

\* vertices.push(point.clone()) unless some known vertex is within tolerance;
\* w is [heap, found], found the vertices array of extractVertices
pushClone(w, c) == [heap |-> c.heap, found |-> Append(w.found, c.id)]

pushIfNewObj(w, point) ==
    IF \E i \in 1..Len(w.found) : DistLess(w.heap[w.found[i]], w.heap[point], TOL)
    THEN w
    ELSE pushClone(w, objClone(w.heap, point))

RECURSIVE extractObjFrom(_, _, _, _)
extractObjFrom(lines, i, j, w) ==
    IF i > j \/ Len(w.found) > 2 * Len(lines) THEN w
    ELSE IF i = j THEN pushIfNewObj(pushIfNewObj(w, lines[i].start), lines[i].end)
    ELSE extractObjFrom(lines, (i + j) \div 2 + 1, j,
                        extractObjFrom(lines, i, (i + j) \div 2, w))

extractObjects(h, lines) ==
    extractObjFrom(lines, 1, Len(lines), [heap |-> h, found |-> <<>>])

\* the direction of one line at one vertex, for the lines findConnectedLines
\* keeps; exact: the far end is picked by equals, otherwise by distanceTo
directionIfConnected(h, vertex, line, fromStart) ==
    IF DistLess(h[line.start], h[vertex], TOL) \/ DistLess(h[line.end], h[vertex], TOL)
    THEN directionObj(h, IF fromStart THEN line.end ELSE line.start, vertex)
    ELSE h

directionAt(h, vertex, line, exact) ==
    directionIfConnected(h, vertex, line,
                         IF exact THEN VEquals(h[line.start], h[vertex])
                         ELSE DistLess(h[line.start], h[vertex], TOL))

\* the loops over the vertices and, for each, over the lines: pair k is
\* vertex (k - 1) \div n + 1 with line (k - 1) % n + 1, n the number of lines
RECURSIVE directionsFrom(_, _, _, _, _, _)
directionsFrom(h, found, lines, exact, i, j) ==
    IF i > j \/ Len(h) = 0 THEN h
    ELSE IF i = j
    THEN directionAt(h, found[((i - 1) \div Len(lines)) + 1],
                     lines[((i - 1) % Len(lines)) + 1], exact)
    ELSE directionsFrom(directionsFrom(h, found, lines, exact, i, (i + j) \div 2),
                        found, lines, exact, (i + j) \div 2 + 1, j)

directionsOf(w, lines, exact) ==
    directionsFrom(w.heap, w.found, lines, exact, 1, Len(w.found) * Len(lines))

\* one validator that walks the vertices: extractVertices, then the
\* directions at every vertex
vertexWalk(h, lines, exact) == directionsOf(extractObjects(h, lines), lines, exact)

\* validatePattern: Kawasaki-Justin, then Maekawa and vertex validity, each
\* through getVertexType; the other validators make and change no object
validateObjects(h, lines) ==
    vertexWalk(vertexWalk(vertexWalk(h, lines, TRUE), lines, FALSE), lines, FALSE)

\* [...a]: a new array with the entries of a
arrayCopy(h, id) == [heap |-> Append(h, h[id]), id |-> Len(h) + 1]

IsFold(letter) == letter # "C"

\* a.filter(s => s !== 'C'): a new array with the folds of a
arrayFilter(h, id) == [heap |-> Append(h, SelectSeq(h[id], IsFold)), id |-> Len(h) + 1]

\* checkVertexValidity on a vertex type whose sequence and angles are the
\* arrays 1 and 2 of the heap.  mvSequence = sequence.filter(s => s !== 'C'),
\* mvAngles = [...angles], types = [...mvSequence], angles = [...mvAngles];
\* the loop w then splices types and angles
withCrimped(h, types, angles, w) ==
    [h EXCEPT ![types] = w.types, ![angles] = w.angles]

crimpInto(types, angles, w) == withCrimped(angles.heap, types.id, angles.id, w)

crimpTypes(mvAngles, types, w) ==
    crimpInto(types, arrayCopy(types.heap, mvAngles.id), w)

crimpAngles(mvSequence, mvAngles, w) ==
    crimpTypes(mvAngles, arrayCopy(mvAngles.heap, mvSequence.id), w)

crimpSequence(mvSequence, w) ==
    crimpAngles(mvSequence, arrayCopy(mvSequence.heap, 2), w)

checkValidityObjects(vertexType) ==
    crimpSequence(arrayFilter(<<vertexType.sequence, vertexType.angles>>, 1),
                  crimpLoop(crimpStart(vertexType)))

-----------------------------------------------------------------------------
(* Patterns as objects: built by a generator, then either changed by the     *)
(* caller through a reference it holds, or handed to the validators          *)

ObjConfigs ==
    {[shapeType |-> s, width |-> w, height |-> 3 * UNIT, depth |-> 5 * UNIT,
      thickness |-> UNIT \div 2] : s \in ShapeTypes, w \in {UNIT, 5 * UNIT}}

ObjEdges ==
    {[start |-> origin, end |-> v2(3 * UNIT, 0)],
     [start |-> v2(0, UNIT), end |-> v2(3 * UNIT, 3 * UNIT)]}

\* the references through which a caller reaches the objects of a pattern
PathsOf(m) ==
    {[kind |-> "owned", index |-> j] : j \in 1..Len(m.owned)}
      \cup {[kind |-> "vertex", index |-> j] : j \in 1..Len(m.vertices)}
      \cup {[kind |-> k, index |-> j] : k \in {"start", "end"}, j \in 1..Len(m.lines)}

Deref(m, path) ==
    CASE path.kind = "owned"  -> m.owned[path.index]
      [] path.kind = "vertex" -> m.vertices[path.index]
      [] path.kind = "start"  -> m.lines[path.index].start
      [] OTHER                -> m.lines[path.index].end

\* where a point is moved to by the caller
Moved == <<7 * UNIT, 7 * UNIT>>

ObjInit ==
    /\ config \in ObjConfigs
    /\ edge \in ObjEdges
    /\ pc = "idle"
    /\ source = "none"
    /\ pattern = None
    /\ genError = "none"
    /\ validation = None
    /\ paramTest = None
    /\ geomResult = None
    /\ vertexInfo = None
    /\ crimp = None
    /\ validity = None
    /\ heap = <<>>
    /\ refs = None
    /\ before = None

Built(m, from) ==
    /\ pc = "idle"
    /\ heap' = m.heap
    /\ refs' = [vertices |-> m.vertices, lines |-> m.lines, owned |-> m.owned,
                touched |-> None]
    /\ source' = from
    /\ pc' = "built"
    /\ UNCHANGED <<config, pattern, genError, validation, paramTest, edge, geomResult,
                   vertexInfo, crimp, validity, before>>

\* generatePattern(config) of the glue-free generators returns
BuildGlueFree == Built(glueFreeObjects(generatePattern(config)), "generator")

\* the basic generateBoxPattern(config) returns
BuildBasic == Built(basicBoxObjects(config), "basic")

\* generateLockingTab(edge.start, edge.end, tabDepth, inward) returns
BuildTab ==
    \E tabDepth \in TabDepths, inward \in BOOLEAN :
        Built(tabObjects(edge.start, edge.end,
                         generateLockingTab(edge.start, edge.end, tabDepth, inward)),
              "tab")

\* the caller changes a point through one of its references
MutatePoint ==
    /\ pc = "built"
    /\ \E path \in PathsOf(refs) :
          /\ heap' = [heap EXCEPT ![Deref(refs, path)] = Moved]
          /\ refs' = [refs EXCEPT !.touched = path]
    /\ before' = heap
    /\ pc' = "mutated"
    /\ UNCHANGED <<config, source, pattern, genError, validation, paramTest, edge,
                   geomResult, vertexInfo, crimp, validity>>

\* validatePattern(pattern, config) on the pattern built
ValidateObjects ==
    /\ pc = "built"
    /\ source \in {"generator", "tab"}
    /\ heap' = validateObjects(heap, refs.lines)
    /\ before' = heap
    /\ pc' = "validated"
    /\ UNCHANGED <<config, source, pattern, genError, validation, paramTest, edge,
                   geomResult, vertexInfo, crimp, validity, refs>>

\* four folds at 0, 60, 150 and 240 degrees, with or without a cut at 300
ObjAssignments ==
    {[i \in 1..12 |-> IF i \in {1, 3, 6, 9} THEN t[i]
                      ELSE IF i = 11 THEN last ELSE "none"] :
        t \in [{1, 3, 6, 9} -> {"mountain", "valley"}], last \in {"cut", "none"}}

\* a vertex type of the caller's, its sequence and angles being two arrays
TakeVertexType ==
    /\ pc = "idle"
    /\ \E types \in ObjAssignments :
          vertexInfo' = getVertexType(origin, starLines(types))
    /\ heap' = <<vertexInfo'.sequence, vertexInfo'.angles>>
    /\ refs' = [vertices |-> <<>>, lines |-> <<>>, owned |-> <<1, 2>>, touched |-> None]
    /\ source' = "caller"
    /\ pc' = "typed"
    /\ UNCHANGED <<config, pattern, genError, validation, paramTest, edge, geomResult,
                   crimp, validity, before>>

\* checkVertexValidity(vertexType) on it
CheckValidityObjects ==
    /\ pc = "typed"
    /\ heap' = checkValidityObjects(vertexInfo)
    /\ validity' = checkVertexValidity(vertexInfo)
    /\ before' = heap
    /\ pc' = "checked"
    /\ UNCHANGED <<config, source, pattern, genError, validation, paramTest, edge,
                   geomResult, vertexInfo, crimp, refs>>

ObjNext ==
    \/ BuildGlueFree
    \/ BuildBasic
    \/ BuildTab
    \/ MutatePoint
    \/ ValidateObjects
    \/ TakeVertexType
    \/ CheckValidityObjects

ObjSpec == ObjInit /\ [][ObjNext]_vars

-----------------------------------------------------------------------------
(* The theorem validators on patterns drawn by hand: a single vertex with    *)
(* lines in some of the directions 60, 120, 180, 210, 240 and 300 degrees,   *)
(* or one or two lines between points some of which are closer together     *)
(* than the vertex tolerance                                                 *)

HandDirections == {3, 5, 7, 8, 9, 11}
HandAssignments ==
    {[i \in 1..12 |-> IF i \in HandDirections THEN t[i] ELSE "none"] :
        t \in [HandDirections -> {"none", "mountain", "valley", "cut"}]}

NearPoints == {<<0, 0>>, <<6, 0>>, <<12, 0>>, <<UNIT, 0>>}
NearLines ==
    {fold(e[1], e[2], "mountain") :
        e \in {d \in NearPoints \X NearPoints : d[1] # d[2]}}
NearLineLists ==
    {<<l>> : l \in NearLines} \cup {<<l1, l2>> : l1 \in NearLines, l2 \in NearLines}

linesPattern(lines) ==
    [name |-> "Lines", vertices |-> <<>>, foldLines |-> lines, faces |-> <<>>]

HandPatterns ==
    {starPattern(t) : t \in HandAssignments}
      \cup {linesPattern(lines) : lines \in NearLineLists}

HandInit ==
    /\ pattern \in HandPatterns
    /\ pc = "idle"
    /\ config = None
    /\ source = "caller"
    /\ genError = "none"
    /\ validation = None
    /\ paramTest = None
    /\ edge = None
    /\ geomResult = None
    /\ vertexInfo = None
    /\ crimp = None
    /\ validity = None
    /\ heap = <<>>
    /\ refs = None
    /\ before = None

\* extractVertices(pattern.foldLines) returns
ExtractVertices ==
    /\ pc = "idle"
    /\ geomResult' = extractVertices(pattern.foldLines)
    /\ pc' = "extracted"
    /\ UNCHANGED <<config, source, pattern, genError, validation, paramTest, edge,
                   vertexInfo, crimp, validity, heap, refs, before>>

\* at the first vertex of the pattern: verifyKawasakiJustinAtVertex and
\* getVertexType on its connected lines, then checkVertexValidity
firstVertex(p) == extractVertices(p.foldLines)[1]
linesAtFirst(p) == findConnectedLines(firstVertex(p), p.foldLines)

AtVertex ==
    /\ pc = "idle"
    /\ pattern.foldLines # <<>>
    /\ geomResult' = verifyKawasakiJustinAtVertex(firstVertex(pattern), linesAtFirst(pattern))
    /\ vertexInfo' = getVertexType(firstVertex(pattern), linesAtFirst(pattern))
    /\ validity' = checkVertexValidity(vertexInfo')
    /\ pc' = "vertex"
    /\ UNCHANGED <<config, source, pattern, genError, validation, paramTest, edge,
                   crimp, heap, refs, before>>

Validated1(result, at) ==
    /\ pc = "idle"
    /\ validation' = result
    /\ pc' = at
    /\ UNCHANGED <<config, source, pattern, genError, paramTest, edge, geomResult,
                   vertexInfo, crimp, validity, heap, refs, before>>

\* validateKawasakiJustin(pattern) returns
KawasakiJustin == Validated1(validateKawasakiJustin(pattern), "kawasaki-justin")

\* validateMaekawa(pattern) returns
Maekawa == Validated1(validateMaekawa(pattern), "maekawa")

\* validateVertexValidity(pattern) returns
VertexValidity == Validated1(validateVertexValidity(pattern), "vertex-validity")

HandNext ==
    \/ ExtractVertices
    \/ AtVertex
    \/ KawasakiJustin
    \/ Maekawa
    \/ VertexValidity

HandSpec == HandInit /\ [][HandNext]_vars

-----------------------------------------------------------------------------
(* checkVertexValidity on a vertex type the caller lists from one fold and   *)
(* then from another.  The sectors are whole numbers of eighths of a turn,   *)
(* so equal sectors are equal exactly.                                       *)

SectorStep == PI \div 4
ListedDegrees == {4, 5, 6}
SectorLists ==
    UNION {{[i \in 1..n |-> a[i] * SectorStep] :
              a \in {b \in [1..n -> 1..(9 - n)] : SumSeq(b, 1) = 8}} : n \in ListedDegrees}
ListedSequences == UNION {[1..n -> {"M", "V"}] : n \in ListedDegrees}
ListedVertexTypes ==
    {vertexTypeFromSequence(origin, Len(sa[2]), sa[1], sa[2]) :
        sa \in {d \in ListedSequences \X SectorLists : Len(d[1]) = Len(d[2])}}

\* the list from its position r + 1 on, round to position r
rotateList(sq, r) == [i \in 1..Len(sq) |-> sq[((i + r - 1) % Len(sq)) + 1]]

\* the same vertex listed from fold r + 1
rotateVertexType(vertexType, r) ==
    [vertexType EXCEPT !.sequence = rotateList(vertexType.sequence, r),
                       !.angles = rotateList(vertexType.angles, r)]

ListedInit ==
    /\ vertexInfo \in ListedVertexTypes
    /\ pc = "idle"
    /\ config = None
    /\ source = "caller"
    /\ pattern = None
    /\ genError = "none"
    /\ validation = None
    /\ paramTest = None
    /\ edge = None
    /\ geomResult = None
    /\ crimp = None
    /\ validity = None
    /\ heap = <<>>
    /\ refs = None
    /\ before = None

\* checkVertexValidity(vertexType) returns
CheckListed ==
    /\ pc = "idle"
    /\ validity' = checkVertexValidity(vertexInfo)
    /\ pc' = "checked"
    /\ UNCHANGED <<config, source, pattern, genError, validation, paramTest, edge,
                   geomResult, vertexInfo, crimp, heap, refs, before>>

\* the caller lists the vertex from another fold and checks it again; before
\* keeps the first result
CheckRotated ==
    /\ pc = "checked"
    /\ \E r \in 1..(Len(vertexInfo.sequence) - 1) :
          /\ vertexInfo' = rotateVertexType(vertexInfo, r)
          /\ validity' = checkVertexValidity(rotateVertexType(vertexInfo, r))
    /\ before' = validity
    /\ pc' = "rotated"
    /\ UNCHANGED <<config, source, pattern, genError, validation, paramTest, edge,
                   geomResult, crimp, heap, refs>>

ListedNext == CheckListed \/ CheckRotated

ListedSpec == ListedInit /\ [][ListedNext]_vars

-----------------------------------------------------------------------------
(* Properties *)

Validated == pc = "validated"
Generated == pc \in {"generated", "validated"} /\ source = "generator"
PositiveDims(c) == c.width > 0 /\ c.height > 0 /\ c.depth > 0
Result(i) == validation.theorems[i]

\* C1: validatePattern's overall flag is true exactly when every result in
\* its theorems list is valid
C1_OverallIsConjunction ==
    Validated =>
        (validation.overall <=>
            \A i \in 1..Len(validation.theorems) : Result(i).valid)

\* a validation with every result valid, and overall true
C1_Witness ==
    /\ Validated
    /\ validation.overall
    /\ Len(validation.theorems) = 6
    /\ \A i \in 1..6 : Result(i).valid

StandardBox ==
    [shapeType |-> "box", width |-> 5 * UNIT, height |-> 3 * UNIT,
     depth |-> 5 * UNIT, thickness |-> UNIT \div 2]

\* C2: the box of 5 x 3 x 5 cm in 0.5 cm material validates: overall is
\* true, Kawasaki-Justin reports no vertex, and the tab design has no error
C2_StandardBoxValid ==
    (Validated /\ Generated /\ config = StandardBox) =>
        /\ validation.overall
        /\ Result(1).valid /\ Result(1).errors = <<>>
        /\ Result(4).errors = <<>>

TheoremIds ==
    <<"kawasaki-justin", "maekawa", "vertex-validity", "assembly-mechanics-tabs",
      "assembly-mechanics-thickness", "assembly-mechanics-pairing">>

IsSequence(x) == DOMAIN x = 1..Len(x)

\* C3: validatePattern returns six results in the order Kawasaki-Justin,
\* Maekawa, vertex validity, tab design, thickness, tab-slit pairing, each of
\* them complete, whatever the earlier ones reported
C3_SixResultsAlways ==
    Validated =>
        /\ Len(validation.theorems) = 6
        /\ \A i \in 1..Len(validation.theorems) :
              /\ Result(i).theoremId = TheoremIds[i]
              /\ Result(i).valid \in BOOLEAN
              /\ IsSequence(Result(i).errors)
              /\ IsSequence(Result(i).warnings)
              /\ Result(i).valid \/ Result(i).errors # <<>>

\* Kawasaki-Justin and Maekawa have failed, and the four later results are there
C3_Witness ==
    /\ Validated
    /\ ~Result(1).valid /\ ~Result(2).valid
    /\ Len(validation.theorems) = 6
    /\ Result(3).theoremId = "vertex-validity"
    /\ Result(4).theoremId = "assembly-mechanics-tabs" /\ Result(4).errors # <<>>
    /\ Result(5).theoremId = "assembly-mechanics-thickness"
    /\ Result(6).theoremId = "assembly-mechanics-pairing"

\* C4: generation from a zero or negative width, height or depth fails with
\* InvalidDimension and leaves no pattern
C4_NonPositiveRejected ==
    (Generated /\ ~PositiveDims(config)) =>
        genError = "InvalidDimension" /\ pattern = None

\* C5: generateLockingTab and generateSlit fail with DegenerateGeometry on an
\* edge whose ends coincide
C5_DegenerateEdgeRejected ==
    (pc = "returned" /\ edge.start = edge.end) =>
        geomResult.error = "DegenerateGeometry"

SmallPyramid ==
    [shapeType |-> "pyramid", width |-> UNIT, height |-> UNIT,
     depth |-> UNIT, thickness |-> 2 * UNIT]

\* min(width, height, depth) x coefficient and thickness x 5, in hundredths of
\* a unit, with the coefficients of the program's table
ExpectedTabDepth(c) ==
    Min3(c.width, c.height, c.depth)
      * (CASE c.shapeType = "pyramid"  -> 12
           [] c.shapeType = "envelope" -> 10
           [] OTHER                    -> 15)
MinFeature(c) == c.thickness * 5 * 100

C7_GeneratedPassKawasaki ==
    (Validated /\ Generated /\ PositiveDims(config)) =>
        Result(1).valid /\ Result(1).errors = <<>>

\* C8: every pattern generated from positive dimensions passes Maekawa
C8_GeneratedPassMaekawa ==
    (Validated /\ Generated /\ PositiveDims(config)) =>
        Result(2).valid /\ Result(2).errors = <<>>

\* the vertex with lines every 60 degrees typed M M M V V V in circular order
SixSectors ==
    [i \in 1..12 |-> IF i \in {1, 3, 5} THEN "mountain"
                     ELSE IF i \in {7, 9, 11} THEN "valley" ELSE "none"]
SixSectorVertex == getVertexType(origin, starLines(SixSectors))
AtSixSectors == pc = "checked" /\ vertexInfo = SixSectorVertex

Unused(c, parameter, testValue) ==
    \/ parameter = "thickness"
    \/ c.shapeType \in {"prism", "cylinder"} /\ parameter = "depth"
    \/ c.shapeType = "envelope" /\ parameter = "height"
    \/ /\ c.shapeType = "pyramid"
       /\ \/ parameter = "width" /\ c.width >= c.depth /\ testValue >= c.width
          \/ parameter = "depth" /\ c.depth >= c.width /\ testValue >= c.depth

-----------------------------------------------------------------------------
(* Tabs and slits in a pattern.  A locking tab is the group of four lines    *)
(* generateLockingTab emits: the mountain fold on the base, then the three   *)
(* cuts of the outline from the base's start round to its end.  A slit is a  *)
(* cut that belongs to no tab outline and ends at no face corner.            *)

IsTabAt(lines, k) ==
    /\ k + 3 <= Len(lines)
    /\ lines[k].type = "mountain"
    /\ \A i \in 1..3 : lines[k + i].type = "cut"
    /\ lines[k + 1].start = lines[k].start
    /\ lines[k + 1].end = lines[k + 2].start
    /\ lines[k + 2].end = lines[k + 3].start
    /\ lines[k + 3].end = lines[k].end

TabsOf(p) == {k \in 1..Len(p.foldLines) : IsTabAt(p.foldLines, k)}

IsCorner(p, point) == \E j \in 1..Len(p.vertices) : p.vertices[j] = point

FreeCutsOf(p) ==
    {i \in 1..Len(p.foldLines) :
        /\ p.foldLines[i].type = "cut"
        /\ ~\E k \in TabsOf(p) : i \in k..(k + 3)
        /\ ~IsCorner(p, p.foldLines[i].start)
        /\ ~IsCorner(p, p.foldLines[i].end)}

\* C11: in every generated pattern every locking tab has a slit of its own,
\* so a pattern has at least as many slits as it has tabs
C11_EveryTabHasSlit ==
    Generated => Cardinality(TabsOf(pattern)) <= Cardinality(FreeCutsOf(pattern))

RoundingSlack == 1      \* units a rounded length may be off by

TabReturned ==
    /\ pc = "returned"
    /\ geomResult.fn = "generateLockingTab"
    /\ edge.start # edge.end

TipLength == VLength(VSub(geomResult.value.foldLines[3].end,
                          geomResult.value.foldLines[3].start))

\* C12: for a non-degenerate base edge generateLockingTab returns four outline
\* vertices and four fold lines, a mountain fold along the base and three
\* cuts, and the tip edge is 0.7 times as long as the base
C12_TabOutline ==
    TabReturned =>
        /\ Len(geomResult.value.vertices) = 4
        /\ Len(geomResult.value.foldLines) = 4
        /\ geomResult.value.foldLines[1] = fold(edge.start, edge.end, "mountain")
        /\ IsTabAt(geomResult.value.foldLines, 1)
        /\ Abs(10 * TipLength - 7 * VLength(VSub(edge.end, edge.start)))
              <= 10 * RoundingSlack

C12_Witness ==
    /\ TabReturned
    /\ TipLength > 0
    /\ TipLength < VLength(VSub(edge.end, edge.start))


OtherEndpointsKept ==
    \A path \in PathsOf(refs) :
        (path.kind \in {"start", "end"} /\ path # refs.touched)
            => heap[Deref(refs, path)] = before[Deref(refs, path)]

\* C14: every fold line owns copies of its endpoints, so changing a point of
\* the caller's, an entry of the vertices list or an endpoint of another fold
\* line leaves every fold line as it was
C14_LinesOwnEndpoints == pc = "mutated" => OtherEndpointsKept


\* every object there was before the call is what it was, and the pattern
\* still holds the same objects
ObjectsKept == SubSeq(heap, 1, Len(before)) = before

\* C15: validatePattern, with each of its theorem validators, leaves the
\* points of the pattern it is given as they were, and checkVertexValidity
\* leaves the sequence and the angles of its vertex type as they were
C15_ValidatorsKeepInput == pc \in {"validated", "checked"} => ObjectsKept

\* a pattern was validated and directions were made at its vertices, or a
\* vertex was crimped on the copies
C15_Witness ==
    \/ pc = "validated" /\ source = "generator" /\ Len(heap) > Len(before) + 20
    \/ /\ pc = "checked" /\ Len(validity.crimpSteps) > 0
       /\ "C" \in {vertexInfo.sequence[i] : i \in 1..Len(vertexInfo.sequence)}
       /\ heap[5] # heap[1]


LinesOfType(p, t) == {p.foldLines[i] : i \in {j \in 1..Len(p.foldLines) : p.foldLines[j].type = t}}

\* the positions a face lists, counted from 0
FaceIndices(p) == UNION {{p.faces[f][k] : k \in 1..Len(p.faces[f])} : f \in 1..Len(p.faces)}

\* C16: in a generated pattern every index of every face is a position of
\* the vertices list, from 0 to the number of vertices less one
C16_FaceIndicesInRange ==
    Generated => FaceIndices(pattern) \subseteq 0..(Len(pattern.vertices) - 1)

\* a generated prism, whose side faces are counted as the vertices are
\* pushed, with a face reaching the last vertex
C16_Witness ==
    /\ Generated
    /\ config.shapeType = "prism"
    /\ Len(pattern.faces) = 7
    /\ Len(pattern.vertices) - 1 \in FaceIndices(pattern)

\* C17: validateTabSlitPairing returns valid, without errors and with the one
\* warning that pairing is not implemented, whatever the pattern, and its
\* details count the distinct mountain folds and the distinct cut lines
C17_PairingAlwaysWarns ==
    Validated =>
        /\ Result(6).theoremId = "assembly-mechanics-pairing"
        /\ Result(6).valid
        /\ Result(6).errors = <<>>
        /\ Result(6).warnings = <<[kind |-> "pairing-not-implemented"]>>
        /\ Result(6).details.mountainFolds
             = Cardinality({<<l.start, l.end>> : l \in LinesOfType(pattern, "mountain")})
        /\ Result(6).details.cutLines
             = Cardinality({<<l.start, l.end>> : l \in LinesOfType(pattern, "cut")})

\* a validation that failed overall, of a pattern with the same cut line
\* twice, and pairing still valid with its warning
C17_Witness ==
    /\ Validated
    /\ ~validation.overall
    /\ Result(6).valid
    /\ Len(Result(6).warnings) = 1
    /\ Result(6).details.mountainFolds > 0
    /\ Result(6).details.cutLines
         < Cardinality({i \in 1..Len(pattern.foldLines) : pattern.foldLines[i].type = "cut"})


\* n: the mountain and valley folds at the vertex under check
FoldCount == vertexInfo.mountains + vertexInfo.valleys
InCheck == pc \in {"crimping", "checked"}
HasCut == "C" \in {vertexInfo.sequence[i] : i \in 1..Len(vertexInfo.sequence)}

\* C18: checkVertexValidity makes at most (n - 2) / 2 crimps, n the number of
\* mountain and valley folds, and on a vertex of four folds or more that
\* satisfies Maekawa it returns valid exactly when two folds remain and no
\* smallest sector was found between two folds of the same type
C18_BoundedCrimpsExactVerdict ==
    InCheck =>
        /\ FoldCount >= 2 => 2 * Len(crimp.crimpSteps) <= FoldCount - 2
        /\ FoldCount < 2 => crimp.crimpSteps = <<>>
        /\ (pc = "checked" /\ FoldCount >= 4 /\ vertexInfo.maekawaSatisfied) =>
              (validity.valid <=>
                  Len(crimp.types) = 2 /\ crimp.failureReason = NoReason)


\* a circular list read from each of its positions
Rotations(sq) ==
    IF sq = <<>> THEN {<<>>}
    ELSE {[i \in 1..Len(sq) |-> sq[((i + r - 1) % Len(sq)) + 1]] : r \in 0..(Len(sq) - 1)}

\* sq without the positions in drop, the rest in order
Without(sq, drop) ==
    [x \in 1..Cardinality((1..Len(sq)) \ drop) |->
        sq[CHOOSE k \in (1..Len(sq)) \ drop : Cardinality((1..k) \ drop) = x]]

NextAround(i, n) == (i % n) + 1
PrevAround(i, n) == ((i + n - 2) % n) + 1

\* the sectors after sector m is crimped: its left neighbour becomes
\* left + right - removed, and m and its right neighbour are gone
MergedSectors(sectors, m) ==
    Without([sectors EXCEPT ![PrevAround(m, Len(sectors))] =
                 sectors[PrevAround(m, Len(sectors))]
                   + sectors[NextAround(m, Len(sectors))] - sectors[m]],
            {m, NextAround(m, Len(sectors))})

\* sector m, between fold m and the next fold around, is a smallest sector
\* and the step from w to w2 treats it as a crimping step should
CrimpedAt(w, w2, m) ==
    /\ \A k \in 1..Len(w.angles) : w.angles[m] <= w.angles[k]
    /\ m <= Len(w.types)
    /\ IF w.types[m] = w.types[NextAround(m, Len(w.types))]
       THEN /\ w2.status = "invalid"
            /\ w2.failureReason.kind = "same-type"
            /\ w2.failureReason.foldTypes
                 = <<w.types[m], w.types[NextAround(m, Len(w.types))]>>
            /\ w2.failureReason.step = Len(w.crimpSteps) + 1
       ELSE /\ w2.types \in Rotations(Without(w.types, {m, NextAround(m, Len(w.types))}))
            /\ w2.angles \in Rotations(MergedSectors(w.angles, m))
            /\ w2.status # "invalid"

\* C19: a crimping step picks a smallest sector; when the folds on its two
\* sides differ in type it removes exactly those two folds and replaces the
\* sector and its two neighbours by one sector of left + right - removed,
\* the rest keeping their circular order; when they agree in type the
\* result is invalid and names the two types and the step
C19_CrimpStepEffect ==
    [][(pc = "crimping" /\ crimp.status = "running" /\ crimp' # crimp) =>
          \E m \in 1..Len(crimp.angles) : CrimpedAt(crimp, crimp', m)]_vars


LinesAt(point) ==
    {i \in 1..Len(pattern.foldLines) :
        \/ DistLess(pattern.foldLines[i].start, point, TOL)
        \/ DistLess(pattern.foldLines[i].end, point, TOL)}
TypedAt(point, type) == Cardinality({i \in LinesAt(point) : pattern.foldLines[i].type = type})
FoldsAt(point) == TypedAt(point, "mountain") + TypedAt(point, "valley")
Unbalanced(point) ==
    /\ FoldsAt(point) >= 4
    /\ Abs(TypedAt(point, "mountain") - TypedAt(point, "valley")) # 2

\* the vertices of the pattern, as the validators find them
VerticesOf == {extractVertices(pattern.foldLines)[i] :
                  i \in 1..Len(extractVertices(pattern.foldLines))}

AboutVertex(entries, point) ==
    Cardinality({i \in 1..Len(entries) : entries[i].vertex = point})

\* C21: validateMaekawa is invalid exactly when some vertex has four folds or
\* more, cuts not counted, with |M - V| other than 2; each such vertex has one
\* error, and each vertex of fewer than four folds, a vertex of cuts alone
\* included, has one warning and no error
C21_MaekawaVerdict ==
    pc = "maekawa" =>
        /\ ~validation.valid <=> \E v \in VerticesOf : Unbalanced(v)
        /\ \A v \in VerticesOf :
              /\ AboutVertex(validation.errors, v) = IF Unbalanced(v) THEN 1 ELSE 0
              /\ AboutVertex(validation.warnings, v) = IF FoldsAt(v) < 4 THEN 1 ELSE 0
        /\ Len(validation.errors) = Cardinality({v \in VerticesOf : Unbalanced(v)})
        /\ Len(validation.warnings) = Cardinality({v \in VerticesOf : FoldsAt(v) < 4})

\* Maekawa returned invalid for a vertex of four mountains and two cuts, the
\* far ends of the two cuts having their warnings
C21_Witness ==
    /\ pc = "maekawa"
    /\ ~validation.valid
    /\ TypedAt(origin, "mountain") = 4 /\ TypedAt(origin, "cut") = 2
    /\ Len(validation.errors) = 1
    /\ Len(validation.warnings) = 6


\* the sectors between the lines at the first vertex, in order of angle, the
\* first, third, ... being even-indexed in the program, and their two sums
SectorsAt == vertexInfo.angles
EvenSum == SumSeq([i \in 1..Len(SectorsAt) |-> IF i % 2 = 1 THEN SectorsAt[i] ELSE 0], 1)
OddSum == SumSeq([i \in 1..Len(SectorsAt) |-> IF i % 2 = 0 THEN SectorsAt[i] ELSE 0], 1)
Near(x, y) == Abs(x - y) <= KJ_tolerance

KawasakiAt(v) == verifyKawasakiJustinAtVertex(v, findConnectedLines(v, pattern.foldLines))
Carries(errors, r) ==
    \A i \in 1..Len(r.errors) : \E j \in 1..Len(errors) : errors[j] = r.errors[i]

\* C22: at a vertex of four lines or more verifyKawasakiJustinAtVertex is
\* valid exactly when the even-indexed and the odd-indexed sectors each sum
\* to pi within 0.01 and all of them to 2 pi within 0.01; and
\* validateKawasakiJustin is invalid, with the errors of the vertex, when a
\* vertex fails
C22_KawasakiVerdict ==
    /\ (pc = "vertex" /\ vertexInfo.degree >= 4) =>
          (geomResult.valid <=>
              /\ Near(EvenSum, PI)
              /\ Near(OddSum, PI)
              /\ Near(EvenSum + OddSum, TWO_PI))
    /\ pc = "kawasaki-justin" =>
          \A v \in VerticesOf :
              ~KawasakiAt(v).valid =>
                  ~validation.valid /\ Carries(validation.errors, KawasakiAt(v))

\* a vertex of four lines was checked and found valid
C22_Witness ==
    /\ pc = "vertex"
    /\ vertexInfo.degree = 4
    /\ geomResult.valid
    /\ geomResult.details.vertexType = "interior"


\* C23: at a vertex of fewer than four lines verifyKawasakiJustinAtVertex is
\* valid with no error and one warning, and validateKawasakiJustin has no
\* error about such a vertex: it is valid when every vertex is one
C23_FewLinesExempt ==
    /\ (pc = "vertex" /\ vertexInfo.degree < 4) =>
          /\ geomResult.valid
          /\ geomResult.errors = <<>>
          /\ Len(geomResult.warnings) = 1
    /\ pc = "kawasaki-justin" =>
          /\ \A j \in 1..Len(validation.errors) :
                Cardinality(LinesAt(validation.errors[j].vertex)) >= 4
          /\ (\A v \in VerticesOf : Cardinality(LinesAt(v)) < 4) => validation.valid

\* validateKawasakiJustin returned valid for a vertex of three lines, a cut
\* among them: four vertices, four warnings
C23_Witness ==
    /\ pc = "kawasaki-justin"
    /\ Cardinality(LinesAt(origin)) = 3
    /\ TypedAt(origin, "cut") = 1
    /\ validation.valid
    /\ Len(validation.warnings) = 4


\* C24: a vertex where fewer than four mountain and valley folds meet is
\* exempt from the three theorems: Kawasaki-Justin, Maekawa and vertex
\* validity report no error about it, however many cuts touch it
C24_PerimeterExempt ==
    pc \in {"kawasaki-justin", "maekawa", "vertex-validity"} =>
        \A j \in 1..Len(validation.errors) : FoldsAt(validation.errors[j].vertex) >= 4


\* the endpoints of the fold lines in the order they are met: line by line,
\* start before end
EndpointsOf(p) ==
    [k \in 1..(2 * Len(p.foldLines)) |->
        IF k % 2 = 1 THEN p.foldLines[(k + 1) \div 2].start
        ELSE p.foldLines[k \div 2].end]

FirstMet(points, point) ==
    CHOOSE k \in 1..Len(points) :
        points[k] = point /\ \A j \in 1..(k - 1) : points[j] # point

\* C25: extractVertices returns endpoints of the fold lines in the order they
\* are first met, no two of them closer together than the tolerance, and
\* every endpoint of every line within the tolerance of one of them
C25_VerticesExtracted ==
    pc = "extracted" =>
        /\ \A i \in 1..Len(geomResult) :
              \E k \in 1..Len(EndpointsOf(pattern)) : EndpointsOf(pattern)[k] = geomResult[i]
        /\ \A i \in 1..Len(geomResult) : \A j \in 1..(i - 1) :
              /\ ~DistLess(geomResult[i], geomResult[j], TOL)
              /\ FirstMet(EndpointsOf(pattern), geomResult[j])
                   < FirstMet(EndpointsOf(pattern), geomResult[i])
        /\ \A k \in 1..Len(EndpointsOf(pattern)) :
              \E i \in 1..Len(geomResult) :
                  DistLess(EndpointsOf(pattern)[k], geomResult[i], TOL)

\* two lines with four different endpoints, two vertices returned: an
\* endpoint was dropped for being within the tolerance of a vertex
C25_Witness ==
    /\ pc = "extracted"
    /\ Len(pattern.foldLines) = 2
    /\ Cardinality({EndpointsOf(pattern)[k] : k \in 1..4}) = 4
    /\ Len(geomResult) = 2


\* the sectors verifyKawasakiJustinAtVertex computed at the first vertex
KawasakiSectors == geomResult.details.angles

\* C30: at a vertex of four lines or more the sectors computed by
\* verifyKawasakiJustinAtVertex are those computed by getVertexType, one for
\* one within 0.01, and sum to 2 pi, also when a sector is larger than pi
C30_SameSectors ==
    (pc = "vertex" /\ vertexInfo.degree >= 4) =>
        /\ Len(KawasakiSectors) = Len(SectorsAt)
        /\ \A i \in 1..Len(SectorsAt) : Near(KawasakiSectors[i], SectorsAt[i])
        /\ Near(SumSeq(KawasakiSectors, 1), TWO_PI)

\* the configuration validateAllShapes gives every shape: 5 x 3 x 5 cm of
\* paper 0.5 thick
DefaultConfig(c) ==
    c.width = 5 * UNIT /\ c.height = 3 * UNIT /\ c.depth = 5 * UNIT /\ c.thickness = UNIT \div 2

\* C26: at the default configuration validateParameterBehavior reports no
\* issue for any shape, and doubling a parameter changes the pattern exactly
\* when the shape is declared to use it
C26_DefaultBehavior ==
    (pc = "behavior" /\ DefaultConfig(config)) =>
        \A i \in 1..Len(paramTest.tests) :
            /\ paramTest.tests[i].issue = "none"
            /\ paramTest.tests[i].actuallyAffectsPattern = paramTest.tests[i].used

\* lines i .. i + 3 of the pattern are the outline of a locking tab: the
\* mountain fold on its base, then the three cuts round its tip
TabAt(p, i) ==
    /\ i + 3 <= Len(p.foldLines)
    /\ p.foldLines[i].type = "mountain"
    /\ \A k \in 1..3 : p.foldLines[i + k].type = "cut"
    /\ p.foldLines[i + 1].start = p.foldLines[i].start
    /\ p.foldLines[i + 2].start = p.foldLines[i + 1].end
    /\ p.foldLines[i + 3].start = p.foldLines[i + 2].end
    /\ p.foldLines[i + 3].end = p.foldLines[i].end
    /\ p.foldLines[i].start # p.foldLines[i].end

\* how far the tab's tip lies from its base, in units
TabDepthAt(p, i) ==
    Abs(VCross(VSub(p.foldLines[i + 1].end, p.foldLines[i].start),
               VNormalize(VSub(p.foldLines[i].end, p.foldLines[i].start))))

\* C29: the tab depth validateTabDesign checks is the depth of the tabs the
\* generator built for the same positive configuration
C29_CheckedTabDepthIsBuilt ==
    (Validated /\ Generated /\ PositiveDims(config)) =>
        \A i \in 1..Len(pattern.foldLines) :
            TabAt(pattern, i) =>
                Abs(100 * TabDepthAt(pattern, i) - Result(4).details.expectedTabDepth)
                    <= 100 * TOL

FoldTypesRead ==
    {crimp.crimpSteps[k].foldTypes : k \in 1..Len(crimp.crimpSteps)}
        \cup (IF crimp.failureReason.kind = "same-type"
               THEN {crimp.failureReason.foldTypes} ELSE {})

\* C28: while checkVertexValidity reduces a vertex its list of angles has one
\* entry for each remaining mountain or valley fold, and the two fold types
\* it reads at a step are each M or V
C28_OneAnglePerFold ==
    pc = "crimping" =>
        /\ crimp.status = "running" => Len(crimp.angles) = Len(crimp.types)
        /\ FoldTypesRead \subseteq {"M", "V"} \X {"M", "V"}

\* C27: checkVertexValidity gives the same verdict for a vertex listed from
\* any of its folds, the sectors rotated with the fold types
C27_VerdictKeptUnderRotation ==
    pc = "rotated" => validity.valid = before.valid

=============================================================================
